---------------------------- MODULE Spec2Model ----------------------------
(***************************************************************************)
(* A model of the binary decoding core of scripts/config_sources/          *)
(* _swf_handle.py: the packed bounding box (parse_rect), the tag framing   *)
(* loop of extract_swf_data and the AMF3 reader (class AMF3Reader).        *)
(*                                                                         *)
(* Three specifications share the module, one per component:               *)
(*   SpecRect  parse_rect applied to bounded byte buffers                  *)
(*   SpecTags  the while loop of extract_swf_data over a tag stream        *)
(*   SpecAmf   one AMF3Reader decoding one buffer with read_object         *)
(* A buffer read through a BytesIO is modelled by its length, fixed in the *)
(* initial state, and by the bytes read so far: the bytes a read returns   *)
(* are drawn, from small sets, when the stream first returns them.         *)
(* Python's 0-based offsets are kept; Byte(data, i) is data[i].            *)
(***************************************************************************)
EXTENDS Integers, Sequences, FiniteSets, TLC

VARIABLES
    \* parse_rect
    rect_data,      \* the data argument
    rect_offset,    \* the offset argument
    rect_ret,       \* the returned pair (rect dict, end offset)
    rect_pc,        \* "call" before the call, "done" after it
    \* extract_swf_data, the tag loop (lines 507-570)
    data_length,    \* len(swf_data) - header_size: the length of stream
    stream_bytes,   \* the bytes stream has returned so far; tell() is their count
    result,         \* the dict from tag type to the list of payloads
    tags_pc,        \* "loop" inside the while loop, "returned" after it
    framed,         \* history: one record per tag whose payload was read
    header_ats,     \* history: the offsets at which a tag header was read
    \* AMF3Reader: one reader decoding one buffer with read_object
    amf_input,      \* the buffer, where the caller fixed it: [known, bytes]
    amf_length,     \* len(data)
    amf_data,       \* the bytes self.stream has returned so far
    string_table,   \* self.string_table
    object_table,   \* self.object_table
    class_table,    \* self.class_table
    heap,           \* the lists and dicts the reader has created, by address
    stack,          \* the active read_array / read_generic_object calls
    status,         \* "running", "returned" or "raised"
    amf_ret,        \* the value the outermost read_object returned
    log,            \* history: the reads made so far
    \* decompress_swf and the start of extract_swf_data (lines 498-511)
    swf_bytes,      \* the swf_bytes argument
    swf_pc,         \* "call", "decompressed", "framing" or "raised"
    swf_data,       \* the uncompressed container decompress_swf returned
    header,         \* the header dict decompress_swf returned
    swf_stream,     \* the bytes given to the tag loop's BytesIO
    \* extract_binary_data
    assets_in,          \* the swf_data argument: tag type -> list of payloads
    asset_symbol_names, \* the dict read_export_asset_name returned
    assets_result,      \* the local result
    assets_i,           \* how many payloads of swf_data[87] the loop has taken
    assets_pc,          \* "call", "loop", "returned" or "raised"
    assets_ret,         \* the dict returned
    \* read_amf3_object, called MaxDecodes times at most
    blob_data,      \* the data argument of the call in progress
    blob_pc,        \* "idle", "raw" (the first try) or "inflated" (the second)
    decoded,        \* history: per call its data, the try that gave the result,
                    \* the value returned and the heap it refers to
    \* Flash.get_coredll_configs
    cfg_blobs,      \* the values of swf_configs, in the order of its items
    cfg_i,          \* items done
    cfg_pc,         \* "idle", "loop", "decoding", "returned" or "raised"
    cfg_cause,      \* the call that raised: "inflate", "decode" or "convert"
    cfg_written,    \* the files written, in order
    \* one U29 written and read back
    u29_n,          \* the integer
    u29_bytes,      \* its encoding
    u29_pc,         \* "start", "encoded", "u29" or "integer"
    u29_ret,        \* what the read returned
    \* run()
    run_pc,         \* "idle", "remote", "check", "configs", "save", "commit",
                    \* "push", "done" or "raised"
    run_i,          \* the index of the platform of the current iteration
    remote,         \* per platform, the version its remote publishes now
    remote_changes, \* how often a remote has published a new version
    version_file,   \* per platform, the content of its version file
    remote_version, \* the local variable of run()
    fetched,        \* per platform, the version of what get_configs fetched
    run_log,        \* what run() did, in order
    has_update,     \* the output has_update: "unset" or "true"
    \* download_data_async
    dl_tasks,       \* len(tasks)
    max_retries,
    dl_i,           \* tasks done
    attempt,
    backoff_seconds,\* in half seconds
    dl_response,    \* what the last request gave
    dl_pc,          \* "idle", "request", "response", "done" or "raised"
    dl_log          \* requests, writes, sleeps, in order

rect_vars == <<rect_data, rect_offset, rect_ret, rect_pc>>
tags_vars == <<data_length, stream_bytes, result, tags_pc, framed, header_ats>>

amf_vars == <<amf_input, amf_length, amf_data, string_table, object_table, class_table,
              heap, stack, status, amf_ret, log>>

swf_vars == <<swf_bytes, swf_pc, swf_data, header, swf_stream>>

\* The variables of the components other than parse_rect, the tag loop and
\* AMF3Reader
assets_vars == <<assets_in, asset_symbol_names, assets_result, assets_i,
                 assets_pc, assets_ret>>

blob_vars == <<blob_data, blob_pc, decoded>>

configs_vars == <<cfg_blobs, cfg_i, cfg_pc, cfg_cause, cfg_written>>

u29_vars == <<u29_n, u29_bytes, u29_pc, u29_ret>>

run_vars == <<run_pc, run_i, remote, remote_changes, version_file,
              remote_version, fetched, run_log, has_update>>

dl_vars == <<dl_tasks, max_retries, dl_i, attempt, backoff_seconds,
             dl_response, dl_pc, dl_log>>

update_vars == <<run_vars, dl_vars>>

more_vars == <<configs_vars, u29_vars, update_vars>>

other_vars == <<swf_vars, assets_vars, blob_vars, more_vars>>

vars == <<rect_data, rect_offset, rect_ret, rect_pc,
          data_length, stream_bytes, result, tags_pc, framed, header_ats,
          amf_input, amf_length, amf_data, string_table, object_table,
          class_table, heap, stack, status, amf_ret, log,
          swf_bytes, swf_pc, swf_data, header, swf_stream,
          assets_in, asset_symbol_names, assets_result, assets_i,
          assets_pc, assets_ret,
          blob_data, blob_pc, decoded,
          cfg_blobs, cfg_i, cfg_pc, cfg_cause, cfg_written,
          u29_n, u29_bytes, u29_pc, u29_ret,
          run_pc, run_i, remote, remote_changes, version_file,
          remote_version, fetched, run_log, has_update,
          dl_tasks, max_retries, dl_i, attempt, backoff_seconds,
          dl_response, dl_pc, dl_log>>

--------------------------------------------------------------------------
(* Bytes, bits and Python's unbounded integers                             *)

Min(a, b) == IF a < b THEN a ELSE b

\* data[i] for a 0-based index i
Byte(data, i) == data[i + 1]

\* data[a:b], Python slice with 0 <= a
Slice(data, a, b) == SubSeq(data, a + 1, Min(b, Len(data)))

\* All sequences over S of length exactly n
RECURSIVE SeqsOfLen(_, _)
SeqsOfLen(S, n) ==
    IF n <= 0 THEN {<<>>}
    ELSE {<<x>> \o s : x \in S, s \in SeqsOfLen(S, n - 1)}

\* The 8 bits of a byte, most significant first
Bits8(b) == [i \in 1..8 |-> (b \div (2 ^ (8 - i))) % 2]

\* The value of a bit sequence (most significant first); at most 31 bits
RECURSIVE BitsToInt(_)
BitsToInt(bits) ==
    IF Len(bits) = 0 THEN 0
    ELSE 2 * BitsToInt(SubSeq(bits, 1, Len(bits) - 1)) + bits[Len(bits)]

\* A Python int of any size is kept as its binary digits, most significant
\* first.  x & ((1 << k) - 1): the low k bits
LowBits(bits, k) ==
    IF Len(bits) <= k THEN bits ELSE SubSeq(bits, Len(bits) - k + 1, Len(bits))

\* x >> s
ShiftRight(bits, s) == SubSeq(bits, 1, Len(bits) - s)

--------------------------------------------------------------------------
(* parse_rect                                                              *)

EmptyDict == [k \in {} |-> 0]

RectDict(xmin, xmax, ymin, ymax) ==
    [xmin |-> xmin, xmax |-> xmax, ymin |-> ymin, ymax |-> ymax,
     width |-> xmax - xmin, height |-> ymax - ymin]

\* bit_data after the loop of lines 350-353
RECURSIVE rect_bit_data(_, _, _)
rect_bit_data(data, offset, total_bytes) ==
    IF total_bytes = 0 THEN <<>>
    ELSE LET rest == rect_bit_data(data, offset, total_bytes - 1)
             i == total_bytes - 1
         IN  IF offset + i < Len(data)
             THEN rest \o Bits8(Byte(data, offset + i))
             ELSE rest

\* One coordinate, lines 361-367: i in 0..3
rect_coord(bit_data, nbits, i) ==
    LET shift == (3 - i) * nbits
        value == BitsToInt(LowBits(ShiftRight(bit_data, shift), nbits))
        half  == 2 ^ (nbits - 1)
    IN  IF (value \div half) % 2 = 1
        THEN (value - half) - half
        ELSE value

\* parse_rect with total_bytes rounded down instead of up
parse_rect_floor_bytes(data, offset) ==
    IF offset >= Len(data)
    THEN [rect |-> EmptyDict, end |-> offset]
    ELSE
    LET first_byte == Byte(data, offset)
        nbits == first_byte \div 8
        total_bits == 5 + 4 * nbits
        total_bytes == total_bits \div 8
    IN  IF nbits = 0
        THEN [rect |-> RectDict(0, 0, 0, 0), end |-> offset + 1]
        ELSE IF offset + total_bytes > Len(data)
        THEN [rect |-> EmptyDict, end |-> offset]
        ELSE
        LET raw == rect_bit_data(data, offset, total_bytes)
            bit_data == LowBits(raw, total_bits - 5)
        IN  [rect |-> RectDict(rect_coord(bit_data, nbits, 0),
                               rect_coord(bit_data, nbits, 1),
                               rect_coord(bit_data, nbits, 2),
                               rect_coord(bit_data, nbits, 3)),
             end |-> offset + total_bytes]

parse_rect(data, offset) ==
    IF offset >= Len(data)
    THEN [rect |-> EmptyDict, end |-> offset]
    ELSE
    LET first_byte == Byte(data, offset)
        nbits == first_byte \div 8
        total_bits == 5 + 4 * nbits
        total_bytes == (total_bits + 7) \div 8
    IN  IF nbits = 0
        THEN [rect |-> RectDict(0, 0, 0, 0), end |-> offset + 1]
        ELSE IF offset + total_bytes > Len(data)
        THEN [rect |-> EmptyDict, end |-> offset]
        ELSE
        LET raw == rect_bit_data(data, offset, total_bytes)
            bit_data == LowBits(raw, total_bits - 5)
        IN  [rect |-> RectDict(rect_coord(bit_data, nbits, 0),
                               rect_coord(bit_data, nbits, 1),
                               rect_coord(bit_data, nbits, 2),
                               rect_coord(bit_data, nbits, 3)),
             end |-> offset + total_bytes]

--------------------------------------------------------------------------
(* extract_swf_data: the tag framing loop                                  *)

\* struct.unpack('<H', b)[0]
unpack_H(b) == b[1] + 256 * b[2]

\* struct.unpack('<I', b)[0]
unpack_I(b) == b[1] + 256 * b[2] + 65536 * b[3] + 16777216 * b[4]

\* tag_type = tag_header >> 6
tag_type_of(tag_header) == tag_header \div 64

\* A length field one bit too wide
tag_short_length_7bit(tag_header) == tag_header % 128

\* tag_length = tag_header & 0x3F
tag_short_length(tag_header) == tag_header % 64

LongFormSentinel == 63

\* A clamp that drops the truncated tag instead of keeping what is left
clamp_tag_length_drop(tag_length, remaining_bytes) ==
    IF remaining_bytes < tag_length THEN 0 ELSE tag_length

\* lines 545-549: the length actually read
clamp_tag_length(tag_length, remaining_bytes) ==
    IF remaining_bytes < tag_length THEN remaining_bytes ELSE tag_length

\* An append that starts a new list each time
result_append_overwrite(res, tag_type, tag_data) ==
    [t \in DOMAIN res \cup {tag_type} |->
        IF t = tag_type THEN <<tag_data>> ELSE res[t]]

\* lines 565-568
result_append(res, tag_type, tag_data) ==
    IF tag_type \in DOMAIN res
    THEN [res EXCEPT ![tag_type] = Append(@, tag_data)]
    ELSE [t \in DOMAIN res \cup {tag_type} |->
             IF t = tag_type THEN <<tag_data>> ELSE res[t]]

\* Inputs.  MaxTagLen bounds the length of the tag stream.  A tag header is
\* drawn from TagHeaders (type 0, 1, 2 and 4; short lengths 0, 1, 2 and the
\* long form), an extended length from TagLongLengths, payload bytes from
\* TagPayloadBytes.
MaxTagLen == 10
TagPayloadBytes == {170, 187}
TagHeaders ==
    {<<0, 0>>, <<1, 0>>, <<63, 0>>, <<64, 0>>, <<65, 0>>, <<127, 0>>,
     <<130, 0>>, <<1, 1>>}
\* (the largest extended length drawn is 0x7FFFFFFF)
TagLongLengths ==
    {<<0, 0, 0, 0>>, <<1, 0, 0, 0>>, <<2, 0, 0, 0>>, <<0, 1, 0, 0>>,
     <<255, 255, 255, 127>>}

tell == Len(stream_bytes)

\* (a variant of the break below that goes on to the next iteration instead)
TagBreak_continue(rd) ==
    /\ stream_bytes' = stream_bytes \o rd
    /\ UNCHANGED <<result, framed, tags_pc>>

\* break, after reading the bytes rd
TagBreak(rd) ==
    /\ stream_bytes' = stream_bytes \o rd
    /\ tags_pc' = "returned"
    /\ UNCHANGED <<result, framed>>

\* lines 544-568, after the header bytes rd gave tag_type and tag_length;
\* stream.read(tag_length) returns at most the bytes that are left
TagPayload(rd, tag_type, declared) ==
    LET at == tell + Len(rd)
        remaining_bytes == data_length - at
        tag_length == clamp_tag_length(declared, remaining_bytes)
    IN  \E tag_data \in SeqsOfLen(TagPayloadBytes, Min(tag_length, remaining_bytes)) :
          /\ stream_bytes' = stream_bytes \o rd \o tag_data
          /\ IF Len(tag_data) = 0
             THEN UNCHANGED <<result, tags_pc>>
             ELSE IF tag_type = 0
             THEN tags_pc' = "returned" /\ UNCHANGED result
             ELSE /\ result' = result_append(result, tag_type, tag_data)
                  /\ UNCHANGED tags_pc
          /\ framed' = Append(framed,
                 [at |-> tell, tag_type |-> tag_type, tag_data |-> tag_data,
                  kept |-> result' # result])

\* One iteration of the while loop, lines 513-568
TagLoopIteration ==
    /\ tags_pc = "loop"
    /\ tell < data_length
    /\ IF data_length - tell < 2
       THEN TagBreak(<<>>)
       ELSE \E tag_header_data \in TagHeaders :
              LET tag_header == unpack_H(tag_header_data)
                  tag_type == tag_type_of(tag_header)
                  tag_length == tag_short_length(tag_header)
              IN  IF tag_length = LongFormSentinel
                  THEN IF data_length - (tell + 2) < 4
                       THEN TagBreak(tag_header_data)
                       ELSE \E length_data \in TagLongLengths :
                              TagPayload(tag_header_data \o length_data,
                                         tag_type, unpack_I(length_data))
                  ELSE TagPayload(tag_header_data, tag_type, tag_length)
    /\ header_ats' = IF data_length - tell < 2 THEN header_ats
                     ELSE Append(header_ats, tell)
    /\ UNCHANGED data_length
    /\ UNCHANGED <<rect_vars, amf_vars, other_vars>>

\* The while condition fails: return result (line 570)
TagLoopExit ==
    /\ tags_pc = "loop"
    /\ tell >= data_length
    /\ tags_pc' = "returned"
    /\ UNCHANGED <<data_length, stream_bytes, result, framed, header_ats>>
    /\ UNCHANGED <<rect_vars, amf_vars, other_vars>>

--------------------------------------------------------------------------
(* parse_rect as a specification                                           *)

\* Inputs: a buffer is up to MaxRectPrefix bytes before the box, a first
\* byte (nbits and the three bits after it) and a body.
MaxRectPrefix == 1
MaxRectBody == 3
MaxRectFill == 16
RectBytes == {0, 90, 255}
RectNBits == {0, 1, 2, 3, 6, 7, 8, 15, 31}
RectLow3 == {0, 5, 7}

RectFirstBytes == {n * 8 + l : n \in RectNBits, l \in RectLow3}

RectBodies ==
    UNION {SeqsOfLen(RectBytes, n) : n \in 0..MaxRectBody}
    \cup {[i \in 1..n |-> b] : n \in (MaxRectBody + 1)..MaxRectFill, b \in RectBytes}

ParseRect ==
    /\ rect_pc = "call"
    /\ rect_ret' = parse_rect(rect_data, rect_offset)
    /\ rect_pc' = "done"
    /\ UNCHANGED <<rect_data, rect_offset>>
    /\ UNCHANGED <<tags_vars, amf_vars, other_vars>>

--------------------------------------------------------------------------
(* AMF3Reader: values, tables and the pure parts of the read methods       *)

AMF3_UNDEFINED == 0
AMF3_NULL == 1
AMF3_FALSE == 2
AMF3_TRUE == 3
AMF3_INTEGER == 4
AMF3_DOUBLE == 5
AMF3_STRING == 6
AMF3_XML_DOC == 7
AMF3_DATE == 8
AMF3_ARRAY == 9
AMF3_OBJECT == 10
AMF3_XML == 11
AMF3_BYTE_ARRAY == 12

\* Python values.  A str is its code points, a float its 8 IEEE-754 bytes,
\* a datetime the 8 bytes of its millisecond timestamp; a list or a dict is
\* a reference to the heap, so that two names of one object stay one object.
PyNone == [t |-> "None", n |-> 0, s |-> <<>>]
PyBool(b) == [t |-> "bool", n |-> IF b THEN 1 ELSE 0, s |-> <<>>]
PyInt(n) == [t |-> "int", n |-> n, s |-> <<>>]
PyFloat(b) == [t |-> "float", n |-> 0, s |-> b]
PyStr(cps) == [t |-> "str", n |-> 0, s |-> cps]
PyBytes(b) == [t |-> "bytes", n |-> 0, s |-> b]
PyDatetime(b) == [t |-> "datetime", n |-> 0, s |-> b]
PyRef(a) == [t |-> "ref", n |-> a, s |-> <<>>]

\* Heap objects: a list has items in vals; a dict has keys[i] bound to
\* vals[i], in insertion order
NewList == [kind |-> "list", keys |-> <<>>, vals |-> <<>>]
NewDict == [kind |-> "dict", keys |-> <<>>, vals |-> <<>>]

ListAppend(o, v) == [o EXCEPT !.vals = Append(@, v)]

\* d[key] = v
DictSet(o, key, v) ==
    IF \E j \in 1..Len(o.keys) : o.keys[j] = key
    THEN LET j == CHOOSE j \in 1..Len(o.keys) : o.keys[j] = key
         IN  [o EXCEPT !.vals[j] = v]
    ELSE [o EXCEPT !.keys = Append(@, key), !.vals = Append(@, v)]

\* str(i) for i >= 0, as code points
RECURSIVE PyStrOfInt(_)
PyStrOfInt(i) ==
    IF i < 10 THEN <<48 + i>>
    ELSE PyStrOfInt(i \div 10) \o <<48 + (i % 10)>>

\* '__class__'
ClassKey == <<95, 95, 99, 108, 97, 115, 115, 95, 95>>

\* bytes.decode('utf-8'): [ok, cps]
IsCont(b) == b >= 128 /\ b <= 191
RECURSIVE utf8_decode(_)
utf8_decode(b) ==
    IF b = <<>> THEN [ok |-> TRUE, cps |-> <<>>]
    ELSE
    LET b0 == b[1]
        n == IF b0 < 128 THEN 1
             ELSE IF b0 >= 194 /\ b0 <= 223 THEN 2
             ELSE IF b0 >= 224 /\ b0 <= 239 THEN 3
             ELSE IF b0 >= 240 /\ b0 <= 244 THEN 4
             ELSE 0
        wellformed ==
            /\ n >= 1
            /\ Len(b) >= n
            /\ \A j \in 2..n : IsCont(b[j])
            /\ (b0 = 224 => b[2] >= 160)
            /\ (b0 = 237 => b[2] <= 159)
            /\ (b0 = 240 => b[2] >= 144)
            /\ (b0 = 244 => b[2] <= 143)
    IN  IF ~wellformed THEN [ok |-> FALSE, cps |-> <<>>]
        ELSE
        LET cp == IF n = 1 THEN b0
                  ELSE IF n = 2 THEN (b0 % 32) * 64 + (b[2] % 64)
                  ELSE IF n = 3 THEN (b0 % 16) * 4096 + (b[2] % 64) * 64 + (b[3] % 64)
                  ELSE (b0 % 8) * 262144 + (b[2] % 64) * 4096
                       + (b[3] % 64) * 64 + (b[4] % 64)
            rest == utf8_decode(SubSeq(b, n + 1, Len(b)))
        IN  [ok |-> rest.ok, cps |-> <<cp>> \o rest.cps]

\* lines 67-70 (and 142-145): UTF-8, else Latin-1 (every byte is its own
\* code point)
decode_text(b) ==
    LET u == utf8_decode(b) IN IF u.ok THEN u.cps ELSE b

\* read_u29 over the bytes src that the stream returns one at a time:
\* [ok, value, used]; ok is FALSE when the stream ran out (struct.error)
RECURSIVE read_u29_loop(_, _, _)
read_u29_loop(src, i, acc) ==
    IF i >= Len(src)
    THEN [ok |-> FALSE, value |-> acc, used |-> Len(src)]
    ELSE LET byte == src[i + 1]
         IN  IF i = 3
             THEN [ok |-> TRUE, value |-> acc * 256 + byte, used |-> 4]
             ELSE LET r == acc * 128 + (byte % 128)
                  IN  IF byte < 128
                      THEN [ok |-> TRUE, value |-> r, used |-> i + 1]
                      ELSE read_u29_loop(src, i + 1, r)

\* read_u29 with a fourth byte of 7 bits
RECURSIVE read_u29_loop_7_bits(_, _, _)
read_u29_loop_7_bits(src, i, acc) ==
    IF i >= Len(src)
    THEN [ok |-> FALSE, value |-> acc, used |-> Len(src)]
    ELSE LET byte == src[i + 1]
             r == acc * 128 + (byte % 128)
         IN  IF i = 3 \/ byte < 128
             THEN [ok |-> TRUE, value |-> r, used |-> i + 1]
             ELSE read_u29_loop_7_bits(src, i + 1, r)

read_u29_7_bits(src) == read_u29_loop_7_bits(src, 0, 0)

read_u29(src) == read_u29_loop(src, 0, 0)

\* read_integer with 0x0FFFFFFF taken for a negative number
read_integer_sign_from_0FFFFFFF(u29) ==
    IF u29 >= 268435455 THEN u29 - 536870912 ELSE u29

\* read_integer, lines 113-115, from the U29 read
read_integer(u29) ==
    IF u29 > 268435455 THEN u29 - 536870912 ELSE u29

\* read_string with the table appended to whatever the string read is
read_string_body_append_all(table, u29, string_bytes) ==
    IF u29 % 2 = 0
    THEN LET ref == u29 \div 2
         IN  IF ref < Len(table)
             THEN [ok |-> TRUE, value |-> table[ref + 1],
                   string_table |-> Append(table, table[ref + 1])]
             ELSE [ok |-> FALSE, value |-> <<>>, string_table |-> table]
    ELSE LET length == u29 \div 2
         IN  IF length = 0
             THEN [ok |-> TRUE, value |-> <<>>, string_table |-> Append(table, <<>>)]
             ELSE IF Len(string_bytes) # length
             THEN [ok |-> FALSE, value |-> <<>>, string_table |-> table]
             ELSE LET string_value == decode_text(string_bytes)
                  IN  [ok |-> TRUE, value |-> string_value,
                       string_table |-> Append(table, string_value)]

\* read_string that decodes whatever stream.read(length) returned
read_string_body_accept_short(table, u29, string_bytes) ==
    IF u29 % 2 = 0
    THEN LET ref == u29 \div 2
         IN  IF ref < Len(table)
             THEN [ok |-> TRUE, value |-> table[ref + 1], string_table |-> table]
             ELSE [ok |-> FALSE, value |-> <<>>, string_table |-> table]
    ELSE LET length == u29 \div 2
         IN  IF length = 0
             THEN [ok |-> TRUE, value |-> <<>>, string_table |-> table]
             ELSE LET string_value == decode_text(string_bytes)
                  IN  [ok |-> TRUE, value |-> string_value,
                       string_table |-> IF string_value # <<>>
                                        THEN Append(table, string_value)
                                        ELSE table]

\* read_string after its U29, lines 49-76; string_bytes is what
\* stream.read(length) returned.  [ok, value, string_table]
read_string_body(table, u29, string_bytes) ==
    IF u29 % 2 = 0
    THEN LET ref == u29 \div 2
         IN  IF ref < Len(table)
             THEN [ok |-> TRUE, value |-> table[ref + 1], string_table |-> table]
             ELSE [ok |-> FALSE, value |-> <<>>, string_table |-> table]
    ELSE LET length == u29 \div 2
         IN  IF length = 0
             THEN [ok |-> TRUE, value |-> <<>>, string_table |-> table]
             ELSE IF Len(string_bytes) # length
             THEN [ok |-> FALSE, value |-> <<>>, string_table |-> table]
             ELSE LET string_value == decode_text(string_bytes)
                  IN  [ok |-> TRUE, value |-> string_value,
                       string_table |-> IF string_value # <<>>
                                        THEN Append(table, string_value)
                                        ELSE table]

\* The double of 8 big-endian bytes, by its fields
DoubleExp(b) == (b[1] % 128) * 16 + (b[2] \div 16)
DoubleNegative(b) == b[1] >= 128
DoubleMantissaZero(b) == b[2] % 16 = 0 /\ \A j \in 3..8 : b[j] = 0

\* lines 164-169: datetime.fromtimestamp(timestamp_ms / 1000.0), by the
\* magnitude 2^(DoubleExp - 1023) of timestamp_ms: "ok" inside the years
\* 1..9999, "default" where fromtimestamp raises ValueError or OSError
\* (NaN, year out of range), "overflow" where it raises OverflowError
\* (infinity, beyond time_t), which read_date does not catch
date_outcome(b) ==
    LET e == DoubleExp(b) - 1023
    IN  IF DoubleExp(b) = 2047
        THEN (IF DoubleMantissaZero(b) THEN "overflow" ELSE "default")
        ELSE IF e >= 73 THEN "overflow"
        ELSE IF e <= (IF DoubleNegative(b) THEN 45 ELSE 47) THEN "ok"
        ELSE "default"

EpochBytes == <<0, 0, 0, 0, 0, 0, 0, 0>>

--------------------------------------------------------------------------
(* AMF3Reader as a machine.  read_array and read_generic_object call       *)
(* read_object for their nested values: their activations are the frames   *)
(* of stack, the innermost last.  A frame's pc is where its method waits:  *)
(*   read_array           "assoc_key", "assoc_value", "dense", "return"    *)
(*   read_generic_object  "class_name", "prop_name", "sealed", "dyn_key",  *)
(*                        "dyn_value", "return"                            *)

NoClassDef == [class_name |-> <<>>, dynamic |-> FALSE, properties |-> <<>>]

\* array: the address bound to the local array (read_array) or obj; length:
\* the dense length or property_count; reg: the object_table index (0-based)
\* the composite got when it was registered; assoc, dense: the entries read
\* from the stream so far (history)
Frame(fn, pc, array, length, u29, reg) ==
    [fn |-> fn, pc |-> pc, array |-> array, length |-> length, i |-> 0,
     key |-> <<>>, u29 |-> u29, class_def |-> NoClassDef, reg |-> reg,
     assoc |-> <<>>, dense |-> <<>>]

Event(ev, ctx, u29, n, val, owner) ==
    [ev |-> ev, ctx |-> ctx, u29 |-> u29, n |-> n, val |-> val, owner |-> owner]

Reader ==
    [string_table |-> string_table, object_table |-> object_table,
     class_table |-> class_table, heap |-> heap, stack |-> stack,
     status |-> status, ret |-> amf_ret, log |-> log]

Logged(m, e) == [m EXCEPT !.log = Append(@, e)]

Raised(m) == [m EXCEPT !.status = "raised"]

\* The reg of the innermost active call, -1 at the top level
Owner(m) == IF m.stack = <<>> THEN -1 ELSE m.stack[Len(m.stack)].reg

\* The dict the list o turns into, lines 201-203
dict_of_list(o) ==
    [kind |-> "dict",
     keys |-> [j \in 1..Len(o.vals) |-> PyStrOfInt(j - 1)],
     vals |-> o.vals]

\* lines 197-206: value = self.read_object() returned for the key f.key
array_store_assoc(m, value) ==
    LET d == Len(m.stack)
        f == m.stack[d]
        o == m.heap[f.array]
        g == [f EXCEPT !.pc = "assoc_key",
                       !.assoc = Append(@, <<f.key, value>>)]
    IN  IF o.kind # "dict"
        THEN LET a == Len(m.heap) + 1
             IN  [m EXCEPT !.heap = Append(@, DictSet(dict_of_list(o), f.key, value)),
                           !.object_table[Len(m.object_table)] = PyRef(a),
                           !.stack[d] = [g EXCEPT !.array = a]]
        ELSE [m EXCEPT !.stack[d] = g]

\* lines 209-215: one value of the dense part
array_store_dense(m, value) ==
    LET d == Len(m.stack)
        f == m.stack[d]
        o == m.heap[f.array]
    IN  [m EXCEPT
           !.heap[f.array] = IF o.kind = "list" THEN ListAppend(o, value)
                             ELSE DictSet(o, PyStrOfInt(f.i), value),
           !.stack[d] = [f EXCEPT !.i = f.i + 1,
                                  !.dense = Append(@, value),
                                  !.pc = IF f.i + 1 < f.length THEN "dense"
                                         ELSE "return"]]

\* Where read_generic_object waits once i sealed properties are read
object_pc(class_def, i) ==
    IF i < Len(class_def.properties) THEN "sealed"
    ELSE IF class_def.dynamic THEN "dyn_key"
    ELSE "return"

\* lines 271-272
object_store_sealed(m, value) ==
    LET d == Len(m.stack)
        f == m.stack[d]
    IN  [m EXCEPT
           !.heap[f.array] = DictSet(@, f.class_def.properties[f.i + 1], value),
           !.stack[d] = [f EXCEPT !.i = f.i + 1,
                                  !.pc = object_pc(f.class_def, f.i + 1)]]

\* line 280
object_store_dynamic(m, value) ==
    LET d == Len(m.stack)
        f == m.stack[d]
    IN  [m EXCEPT !.heap[f.array] = DictSet(@, f.key, value),
                  !.stack[d] = [f EXCEPT !.pc = "dyn_key"]]

\* read_object returns value to its caller
Deliver(m, value) ==
    IF m.stack = <<>>
    THEN [m EXCEPT !.status = "returned", !.ret = value]
    ELSE LET pc == m.stack[Len(m.stack)].pc
         IN  IF pc = "assoc_value" THEN array_store_assoc(m, value)
             ELSE IF pc = "dense" THEN array_store_dense(m, value)
             ELSE IF pc = "sealed" THEN object_store_sealed(m, value)
             ELSE object_store_dynamic(m, value)

\* lines 266-268, once class_def is known: the class tag, then the body
object_begin_body(m, class_def) ==
    LET d == Len(m.stack)
        f == m.stack[d]
    IN  [m EXCEPT
           !.heap[f.array] = IF class_def.class_name # <<>>
                             THEN DictSet(@, ClassKey, PyStr(class_def.class_name))
                             ELSE @,
           !.stack[d] = [f EXCEPT !.class_def = class_def, !.i = 0,
                                  !.pc = object_pc(class_def, 0)]]

\* lines 259-264: the class definition is complete
object_define_class(m) ==
    LET f == m.stack[Len(m.stack)]
    IN  object_begin_body(
            Logged([m EXCEPT !.class_table = Append(@, f.class_def)],
                   Event("classdefined", "", f.u29, Len(m.class_table), PyNone,
                         f.reg)),
            f.class_def)

\* A string read by read_array or read_generic_object for itself
DeliverString(m, sv) ==
    LET d == Len(m.stack)
        f == m.stack[d]
    IN  IF f.pc = "assoc_key"
        THEN IF sv = <<>>
             THEN [m EXCEPT !.stack[d].pc = IF f.length > 0 THEN "dense" ELSE "return"]
             ELSE [m EXCEPT !.stack[d] = [f EXCEPT !.key = sv, !.pc = "assoc_value"]]
        ELSE IF f.pc = "dyn_key"
        THEN IF sv = <<>>
             THEN [m EXCEPT !.stack[d].pc = "return"]
             ELSE [m EXCEPT !.stack[d] = [f EXCEPT !.key = sv, !.pc = "dyn_value"]]
        ELSE IF f.pc = "class_name"
        THEN \* lines 244-257
             LET dynamic == (f.u29 \div 8) % 2 = 1
                 externalizable == (f.u29 \div 4) % 2 = 1
                 property_count == f.u29 \div 16
                 g == [f EXCEPT !.class_def = [class_name |-> sv, dynamic |-> dynamic,
                                               properties |-> <<>>],
                                !.length = property_count, !.i = 0,
                                !.pc = "prop_name"]
                 m1 == [m EXCEPT !.stack[d] = g]
             IN  IF externalizable THEN Raised(m1)
                 ELSE IF property_count = 0 THEN object_define_class(m1)
                 ELSE m1
        ELSE \* "prop_name", lines 256-257
             LET g == [f EXCEPT !.class_def.properties = Append(@, sv), !.i = f.i + 1]
                 m1 == [m EXCEPT !.stack[d] = g]
             IN  IF f.i + 1 < f.length THEN m1 ELSE object_define_class(m1)

--------------------------------------------------------------------------
(* AMF3Reader: the inputs drawn and the actions                            *)

\* MaxAmfLen bounds the length of the buffer.  A U29 is drawn from a set of
\* whole encodings per field, the bytes of a string, an XML text or a byte
\* array from AmfTextBytes ('a' and 0xE9, which is not UTF-8 on its own),
\* the 8 bytes of a double from DoublePayloads (0.0, 2^40, 2^64, 2^100, NaN).
MaxAmfLen == 9
AmfTextBytes == {97, 233}
PrimitiveMarkers == {AMF3_UNDEFINED, AMF3_NULL, AMF3_FALSE, AMF3_TRUE}
UnknownMarkers == {13, 120, 255}
IntU29s == {<<1>>, <<255, 255, 255, 255>>}
StrU29s == {<<0>>, <<1>>, <<2>>, <<3>>, <<5>>}
XmlU29s == {<<0>>, <<1>>, <<3>>}
DateU29s == {<<0>>, <<1>>}
ArrayU29s == {<<0>>, <<2>>, <<1>>, <<3>>, <<5>>}
ObjectU29s == {<<0>>, <<2>>, <<1>>, <<5>>, <<3>>, <<7>>, <<11>>, <<19>>, <<27>>}
ByteArrayU29s == {<<0>>, <<1>>, <<3>>}
DoublePayloads ==
    {<<0, 0, 0, 0, 0, 0, 0, 0>>, <<66, 112, 0, 0, 0, 0, 0, 0>>,
     <<67, 240, 0, 0, 0, 0, 0, 0>>, <<70, 48, 0, 0, 0, 0, 0, 0>>,
     <<127, 248, 0, 0, 0, 0, 0, 0>>}

\* The bytes left in self.stream
avail == amf_length - Len(amf_data)

\* What the stream returns to read_u29 when its next bytes encode a member
\* of U and n bytes are left
U29Reads(U, n) == {SubSeq(e, 1, Min(Len(e), n)) : e \in U}

\* What the stream returns to a U29 followed, when the U29 is inline (odd),
\* by stream.read(u29 >> 1): pairs <<U29 bytes, payload bytes>>
StringReads(U, n) ==
    UNION {LET u == read_u29(enc)
               need == IF u.ok /\ u.value % 2 = 1 THEN u.value \div 2 ELSE 0
           IN  {<<enc, x>> : x \in SeqsOfLen(AmfTextBytes, Min(need, n - Len(enc)))}
           : enc \in U29Reads(U, n)}

\* stream.read(8) for a double
DoubleReads(n) == {SubSeq(x, 1, Min(8, n)) : x \in DoublePayloads}

\* A U29 followed, when it is inline, by the 8 bytes of read_double
DateReads(n) ==
    UNION {LET u == read_u29(enc)
           IN  IF u.ok /\ u.value % 2 = 1
               THEN {<<enc, x>> : x \in DoubleReads(n - Len(enc))}
               ELSE {<<enc, <<>> >>}
           : enc \in U29Reads(DateU29s, n)}

\* The buffer of a reader whose bytes are revealed as it reads them
UnknownInput == [known |-> FALSE, bytes |-> <<>>]

\* The bytes read agree with the buffer
AgreesWithInput(read) ==
    amf_input.known =>
        /\ Len(read) <= Len(amf_input.bytes)
        /\ SubSeq(amf_input.bytes, 1, Len(read)) = read

\* The step of the reader: it has read the bytes consumed and is now m
Commit(consumed, m) ==
    /\ AgreesWithInput(amf_data \o consumed)
    /\ amf_data' = amf_data \o consumed
    /\ string_table' = m.string_table
    /\ object_table' = m.object_table
    /\ class_table' = m.class_table
    /\ heap' = m.heap
    /\ stack' = m.stack
    /\ status' = m.status
    /\ amf_ret' = m.ret
    /\ log' = m.log
    /\ UNCHANGED <<amf_input, amf_length, rect_vars, tags_vars, other_vars>>

\* The reader is about to call read_object / read_string
\* Where the innermost call stands; "top" is the caller of read_object
TopPc == IF stack = <<>> THEN "top" ELSE stack[Len(stack)].pc

ExpectsValue ==
    /\ status = "running"
    /\ TopPc \in {"top", "assoc_value", "dense", "sealed", "dyn_value"}

ExpectsString ==
    /\ status = "running"
    /\ TopPc \in {"assoc_key", "dyn_key", "class_name", "prop_name"}

\* line 80: the type marker was read
Marked(type_marker) ==
    Logged(Reader, Event("marker", "", 0, type_marker, PyNone, Owner(Reader)))

\* A reference into object_table that yields None when it is out of range
object_reference_placeholder(m, u29) ==
    LET ref == u29 \div 2
        ok == ref < Len(m.object_table)
        value == IF ok THEN m.object_table[ref + 1] ELSE PyNone
        m1 == Logged(m, Event("objref", "", u29, Len(m.object_table), value, Owner(m)))
    IN  Deliver(m1, value)

\* A reference into object_table, as in lines 129-134, 155-160, 179-184,
\* 224-229, 289-294
object_reference(m, u29) ==
    LET ref == u29 \div 2
        ok == ref < Len(m.object_table)
        value == IF ok THEN m.object_table[ref + 1] ELSE PyNone
        m1 == Logged(m, Event("objref", "", u29, Len(m.object_table), value, Owner(m)))
    IN  IF ok THEN Deliver(m1, value) ELSE Raised(m1)

\* self.object_table.append(value) for a value with no nested values, then
\* return it
register_and_return(m, u29, value) ==
    LET k == Len(m.object_table)
        m1 == Logged([m EXCEPT !.object_table = Append(@, value)],
                     Event("register", "", u29, k, value, Owner(m)))
    IN  Deliver(Logged(m1, Event("return", "", u29, k, value, Owner(m))), value)

\* read_string: the U29 bytes enc, then the bytes string_bytes.
\* [ok, value, m]
read_string(m, ctx, enc, string_bytes) ==
    LET u == read_u29(enc)
        r == read_string_body(m.string_table, u.value, string_bytes)
        done == u.ok /\ r.ok
        e == Event("string", ctx, IF u.ok THEN u.value ELSE -1,
                   Len(m.string_table), PyStr(IF done THEN r.value ELSE <<>>),
                   Owner(m))
    IN  [ok |-> done, value |-> r.value,
         m |-> Logged([m EXCEPT !.string_table =
                           IF done THEN r.string_table ELSE @], e)]

\* (a variant of the read at the end of the buffer below that returns None
\* instead of raising)
ReadObjectAtEnd_returns_None ==
    /\ ExpectsValue
    /\ avail = 0
    /\ Commit(<<>>, Deliver(Reader, PyNone))

\* line 80 when no byte is left: struct.unpack raises
ReadObjectAtEnd ==
    /\ ExpectsValue
    /\ avail = 0
    /\ Commit(<<>>, Raised(Logged(Reader,
                 Event("marker", "", 0, -1, PyNone, Owner(Reader)))))

\* lines 82-89
ReadObjectPrimitive ==
    /\ ExpectsValue
    /\ avail >= 1
    /\ \E type_marker \in PrimitiveMarkers :
          Commit(<<type_marker>>,
                 Deliver(Marked(type_marker),
                         IF type_marker \in {AMF3_UNDEFINED, AMF3_NULL} THEN PyNone
                         ELSE PyBool(type_marker = AMF3_TRUE)))

\* lines 106-107
ReadObjectUnknown ==
    /\ ExpectsValue
    /\ avail >= 1
    /\ \E type_marker \in UnknownMarkers :
          Commit(<<type_marker>>, Raised(Marked(type_marker)))

\* lines 90-91 and read_integer
ReadInteger ==
    /\ ExpectsValue
    /\ avail >= 1
    /\ \E enc \in U29Reads(IntU29s, avail - 1) :
          LET u == read_u29(enc)
          IN  Commit(<<AMF3_INTEGER>> \o enc,
                     IF u.ok
                     THEN Deliver(Marked(AMF3_INTEGER), PyInt(read_integer(u.value)))
                     ELSE Raised(Marked(AMF3_INTEGER)))

\* lines 92-93 and read_double
ReadDouble ==
    /\ ExpectsValue
    /\ avail >= 1
    /\ \E data \in DoubleReads(avail - 1) :
          Commit(<<AMF3_DOUBLE>> \o data,
                 IF Len(data) # 8
                 THEN Raised(Marked(AMF3_DOUBLE))
                 ELSE Deliver(Marked(AMF3_DOUBLE), PyFloat(data)))

\* lines 94-95 and read_string
ReadStringValue ==
    /\ ExpectsValue
    /\ avail >= 1
    /\ \E rd \in StringReads(StrU29s, avail - 1) :
          LET r == read_string(Marked(AMF3_STRING), "value", rd[1], rd[2])
          IN  Commit(<<AMF3_STRING>> \o rd[1] \o rd[2],
                     IF r.ok THEN Deliver(r.m, PyStr(r.value)) ELSE Raised(r.m))

\* read_string called by read_array (line 194) or read_generic_object
\* (lines 244, 257, 277)
ReadStringField ==
    /\ ExpectsString
    /\ \E rd \in StringReads(StrU29s, avail) :
          LET r == read_string(Reader, stack[Len(stack)].pc, rd[1], rd[2])
          IN  Commit(rd[1] \o rd[2],
                     IF r.ok THEN DeliverString(r.m, r.value) ELSE Raised(r.m))

\* lines 96-97 and read_xml
ReadXml ==
    /\ ExpectsValue
    /\ avail >= 1
    /\ \E type_marker \in {AMF3_XML_DOC, AMF3_XML} :
       \E rd \in StringReads(XmlU29s, avail - 1) :
          LET u == read_u29(rd[1])
              m == Marked(type_marker)
          IN  Commit(<<type_marker>> \o rd[1] \o rd[2],
                     IF ~u.ok THEN Raised(m)
                     ELSE IF u.value % 2 = 0 THEN object_reference(m, u.value)
                     ELSE IF Len(rd[2]) # u.value \div 2 THEN Raised(m)
                     ELSE register_and_return(m, u.value, PyStr(decode_text(rd[2]))))

\* lines 104-105 and read_byte_array
ReadByteArray ==
    /\ ExpectsValue
    /\ avail >= 1
    /\ \E rd \in StringReads(ByteArrayU29s, avail - 1) :
          LET u == read_u29(rd[1])
              m == Marked(AMF3_BYTE_ARRAY)
          IN  Commit(<<AMF3_BYTE_ARRAY>> \o rd[1] \o rd[2],
                     IF ~u.ok THEN Raised(m)
                     ELSE IF u.value % 2 = 0 THEN object_reference(m, u.value)
                     ELSE IF Len(rd[2]) # u.value \div 2 THEN Raised(m)
                     ELSE register_and_return(m, u.value, PyBytes(rd[2])))

\* lines 98-99 and read_date
ReadDate ==
    /\ ExpectsValue
    /\ avail >= 1
    /\ \E rd \in DateReads(avail - 1) :
          LET u == read_u29(rd[1])
              m == Marked(AMF3_DATE)
          IN  Commit(<<AMF3_DATE>> \o rd[1] \o rd[2],
                     IF ~u.ok THEN Raised(m)
                     ELSE IF u.value % 2 = 0 THEN object_reference(m, u.value)
                     ELSE IF Len(rd[2]) # 8 THEN Raised(m)
                     ELSE IF date_outcome(rd[2]) = "overflow" THEN Raised(m)
                     ELSE register_and_return(m, u.value,
                              PyDatetime(IF date_outcome(rd[2]) = "ok"
                                         THEN rd[2] ELSE EpochBytes)))

\* lines 186-190: array = [] is registered, then the associative part
array_begin(m, u29) ==
    LET a == Len(m.heap) + 1
        k == Len(m.object_table)
    IN  Logged([m EXCEPT !.heap = Append(@, NewList),
                         !.object_table = Append(@, PyRef(a)),
                         !.stack = Append(@, Frame("read_array", "assoc_key", a,
                                                   u29 \div 2, u29, k))],
               Event("register", "", u29, k, PyRef(a), Owner(m)))

\* lines 100-101 and read_array up to line 190
ReadArray ==
    /\ ExpectsValue
    /\ avail >= 1
    /\ \E enc \in U29Reads(ArrayU29s, avail - 1) :
          LET u == read_u29(enc)
              m == Marked(AMF3_ARRAY)
          IN  Commit(<<AMF3_ARRAY>> \o enc,
                     IF ~u.ok THEN Raised(m)
                     ELSE IF u.value % 2 = 0 THEN object_reference(m, u.value)
                     ELSE array_begin(m, u.value))

\* read_generic_object with a class reference appending the class
\* definition it found to class_table once more
object_begin_redefine(m, u29) ==
    LET a == Len(m.heap) + 1
        k == Len(m.object_table)
        m1 == Logged([m EXCEPT !.heap = Append(@, NewDict),
                               !.object_table = Append(@, PyRef(a)),
                               !.stack = Append(@, Frame("read_generic_object",
                                                "class_name", a, 0, u29, k))],
                     Event("register", "", u29, k, PyRef(a), Owner(m)))
        class_ref == u29 \div 4
    IN  IF (u29 \div 2) % 2 = 0
        THEN LET m2 == Logged(m1, Event("classref", "", u29, Len(m.class_table),
                                        PyNone, k))
             IN  IF class_ref >= Len(m.class_table) THEN Raised(m2)
                 ELSE object_begin_body(
                          [m2 EXCEPT !.class_table =
                               Append(@, m.class_table[class_ref + 1])],
                          m.class_table[class_ref + 1])
        ELSE Logged(m1, Event("classdef", "", u29, Len(m.class_table), PyNone, k))

\* lines 231-251: obj = {} is registered, then the class definition
object_begin(m, u29) ==
    LET a == Len(m.heap) + 1
        k == Len(m.object_table)
        m1 == Logged([m EXCEPT !.heap = Append(@, NewDict),
                               !.object_table = Append(@, PyRef(a)),
                               !.stack = Append(@, Frame("read_generic_object",
                                                "class_name", a, 0, u29, k))],
                     Event("register", "", u29, k, PyRef(a), Owner(m)))
        class_ref == u29 \div 4
    IN  IF (u29 \div 2) % 2 = 0
        THEN LET m2 == Logged(m1, Event("classref", "", u29, Len(m.class_table),
                                        PyNone, k))
             IN  IF class_ref >= Len(m.class_table) THEN Raised(m2)
                 ELSE object_begin_body(m2, m.class_table[class_ref + 1])
        ELSE Logged(m1, Event("classdef", "", u29, Len(m.class_table), PyNone, k))

\* lines 102-103 and read_generic_object up to line 243
ReadGenericObject ==
    /\ ExpectsValue
    /\ avail >= 1
    /\ \E enc \in U29Reads(ObjectU29s, avail - 1) :
          LET u == read_u29(enc)
              m == Marked(AMF3_OBJECT)
          IN  Commit(<<AMF3_OBJECT>> \o enc,
                     IF ~u.ok THEN Raised(m)
                     ELSE IF u.value % 2 = 0 THEN object_reference(m, u.value)
                     ELSE object_begin(m, u.value))

\* return array (line 217), return obj (line 282)
ReturnComposite ==
    /\ status = "running"
    /\ TopPc = "return"
    /\ LET f == stack[Len(stack)]
           m == [Reader EXCEPT !.stack = SubSeq(stack, 1, Len(stack) - 1)]
       IN  Commit(<<>>, Deliver(Logged(m, Event("return", f.fn, f.u29, f.reg,
                                                PyRef(f.array), Owner(m))),
                                PyRef(f.array)))

--------------------------------------------------------------------------
(* zlib.decompress, for the streams drawn here: a zlib header followed by  *)
(* deflate blocks that are stored (BTYPE 00) or of the reserved type       *)
(* (BTYPE 11), and the Adler-32 of the data                                *)

\* The Adler-32 sums of data after the bytes before it gave a and b
RECURSIVE adler32_sums(_, _, _)
adler32_sums(data, a, b) ==
    IF data = <<>> THEN <<a, b>>
    ELSE LET a1 == (a + data[1]) % 65521
         IN  adler32_sums(Tail(data), a1, (b + a1) % 65521)

\* The 4 big-endian bytes of zlib.adler32(data)
adler32(data) ==
    LET ab == adler32_sums(data, 1, 0)
    IN  <<ab[2] \div 256, ab[2] % 256, ab[1] \div 256, ab[1] % 256>>

\* The 2-byte zlib header: deflate, a window of at most 32K, the check
\* bits, no preset dictionary
zlib_header_ok(b) ==
    /\ Len(b) >= 2
    /\ b[1] % 16 = 8
    /\ b[1] \div 16 <= 7
    /\ (b[1] * 256 + b[2]) % 31 = 0
    /\ (b[2] \div 32) % 2 = 0

\* The blocks from (1-based) position p on, out the data inflated so far:
\* [ok, data].  Bytes after the end of the stream are ignored.
RECURSIVE inflate_blocks(_, _, _)
inflate_blocks(b, p, out) ==
    IF p > Len(b) THEN [ok |-> FALSE, data |-> <<>>]
    ELSE
    LET bfinal == b[p] % 2 = 1
        btype == (b[p] \div 2) % 4
    IN  IF btype # 0 \/ p + 4 > Len(b) THEN [ok |-> FALSE, data |-> <<>>]
        ELSE
        LET len == b[p + 1] + 256 * b[p + 2]
            nlen == b[p + 3] + 256 * b[p + 4]
            q == p + 5 + len
        IN  IF len + nlen # 65535 \/ q - 1 > Len(b)
            THEN [ok |-> FALSE, data |-> <<>>]
            ELSE LET data == out \o SubSeq(b, p + 5, q - 1)
                 IN  IF ~bfinal THEN inflate_blocks(b, q, data)
                     ELSE IF q + 3 <= Len(b) /\ SubSeq(b, q, q + 3) = adler32(data)
                     THEN [ok |-> TRUE, data |-> data]
                     ELSE [ok |-> FALSE, data |-> <<>>]

\* zlib.decompress(b): [ok, data]; ok is FALSE where it raises zlib.error
zlib_decompress(b) ==
    IF zlib_header_ok(b) THEN inflate_blocks(b, 3, <<>>)
    ELSE [ok |-> FALSE, data |-> <<>>]

--------------------------------------------------------------------------
(* parse_swf_header, decompress_swf and the start of extract_swf_data      *)

\* b'FWS', b'CWS'
FWS == <<70, 87, 83>>
CWS == <<67, 87, 83>>

\* bytes.decode('ascii'): [ok, cps]
ascii_decode(b) ==
    IF \A j \in 1..Len(b) : b[j] < 128 THEN [ok |-> TRUE, cps |-> b]
    ELSE [ok |-> FALSE, cps |-> <<>>]

NoHeader == [k \in {} |-> 0]

\* parse_swf_header with header_size left at the end of the box
parse_swf_header_size_at_rect_end(data) ==
    IF Len(data) < 8 THEN [ok |-> FALSE, header |-> NoHeader]
    ELSE
    LET signature == ascii_decode(Slice(data, 0, 3))
        version == Byte(data, 3)
        file_size == unpack_I(Slice(data, 4, 8))
        r == parse_rect(data, 8)
        rect_end == r.end
        header_info == [signature |-> signature.cps, version |-> version,
                        file_size |-> file_size,
                        compressed |-> signature.cps = CWS,
                        stage_size |-> r.rect]
    IN  IF ~signature.ok THEN [ok |-> FALSE, header |-> NoHeader]
        ELSE IF rect_end + 4 <= Len(data)
        THEN [ok |-> TRUE,
              header |-> header_info @@
                  [frame_rate |-> <<unpack_H(Slice(data, rect_end, rect_end + 2)), 256>>,
                   frame_count |-> unpack_H(Slice(data, rect_end + 2, rect_end + 4)),
                   header_size |-> rect_end]]
        ELSE [ok |-> TRUE, header |-> header_info @@ [header_size |-> rect_end]]

\* parse_swf_header(data): [ok, header]; frame_rate is the pair
\* <<frame_rate_raw, 256>> of the quotient frame_rate_raw / 256.0
parse_swf_header(data) ==
    IF Len(data) < 8 THEN [ok |-> FALSE, header |-> NoHeader]
    ELSE
    LET signature == ascii_decode(Slice(data, 0, 3))
        version == Byte(data, 3)
        file_size == unpack_I(Slice(data, 4, 8))
        r == parse_rect(data, 8)
        rect_end == r.end
        header_info == [signature |-> signature.cps, version |-> version,
                        file_size |-> file_size,
                        compressed |-> signature.cps = CWS,
                        stage_size |-> r.rect]
    IN  IF ~signature.ok THEN [ok |-> FALSE, header |-> NoHeader]
        ELSE IF rect_end + 4 <= Len(data)
        THEN [ok |-> TRUE,
              header |-> header_info @@
                  [frame_rate |-> <<unpack_H(Slice(data, rect_end, rect_end + 2)), 256>>,
                   frame_count |-> unpack_H(Slice(data, rect_end + 2, rect_end + 4)),
                   header_size |-> rect_end + 4]]
        ELSE [ok |-> TRUE, header |-> header_info @@ [header_size |-> rect_end]]

\* decompress_swf(swf_bytes): [ok, data, header]; ok is FALSE where it raises
decompress_swf(bytes) ==
    LET failed == [ok |-> FALSE, data |-> <<>>, header |-> NoHeader]
    IN  IF Len(bytes) < 8 THEN failed
        ELSE
        LET signature == ascii_decode(Slice(bytes, 0, 3))
            is_compressed == signature.cps = CWS
        IN  IF ~signature.ok THEN failed
            ELSE IF is_compressed
            THEN LET decompressed == zlib_decompress(Slice(bytes, 8, Len(bytes)))
                     new_data == FWS \o Slice(bytes, 3, 8) \o decompressed.data
                     h == parse_swf_header(new_data)
                 IN  IF ~decompressed.ok \/ ~h.ok THEN failed
                     ELSE [ok |-> TRUE, data |-> new_data, header |-> h.header]
            ELSE LET h == parse_swf_header(bytes)
                 IN  IF ~h.ok THEN failed
                     ELSE [ok |-> TRUE, data |-> bytes, header |-> h.header]

\* Inputs.  A body is a bounding box's first byte (nbits 0, 1 or 31) and up
\* to MaxSwfBody further bytes; a container carries it plain or as a zlib
\* stream of one stored block, whole or damaged.
MaxSwfBody == 6
SwfSignatures == {FWS, CWS, <<90, 87, 83>>, <<99, 119, 115>>, <<255, 87, 83>>,
                  <<70, 87, 0>>}
SwfFixedFields == {<<10, 0, 0, 0, 0>>, <<14, 21, 1, 0, 0>>}
SwfPlainBodies ==
    {<<>>} \cup {<<f>> \o [i \in 1..n |-> b] :
                    f \in {0, 8, 248}, n \in 0..MaxSwfBody, b \in {0, 1}}

\* The zlib stream (header 78 DA) of one final stored block holding data
zlib_stored(data) ==
    <<120, 218, 1, Len(data), 0, 255 - Len(data), 255>> \o data \o adler32(data)

SwfZlibBodies ==
    UNION {LET z == zlib_stored(d)
           IN  {z,
                SubSeq(z, 1, Len(z) - 1),
                [z EXCEPT ![Len(z)] = (@ + 1) % 256],
                [z EXCEPT ![2] = 219],
                [z EXCEPT ![3] = 7],
                [z EXCEPT ![6] = 0],
                z \o <<0>>}
           : d \in SwfPlainBodies}

SwfContainers ==
    LET whole == {sig \o f \o b : sig \in SwfSignatures, f \in SwfFixedFields,
                                  b \in SwfPlainBodies \cup SwfZlibBodies}
    IN  whole \cup {SubSeq(c, 1, n) : c \in {sig \o f : sig \in SwfSignatures,
                                                         f \in SwfFixedFields},
                                      n \in 0..7}

\* line 501: swf_data, header = decompress_swf(swf_bytes)
DecompressSwf ==
    /\ swf_pc = "call"
    /\ LET r == decompress_swf(swf_bytes)
       IN  /\ swf_pc' = IF r.ok THEN "decompressed" ELSE "raised"
           /\ swf_data' = r.data
           /\ header' = r.header
    /\ UNCHANGED <<swf_bytes, swf_stream>>
    /\ UNCHANGED <<rect_vars, tags_vars, amf_vars, assets_vars, blob_vars, more_vars>>

\* lines 503-511: the stream of the tag loop starts at header_size
BeginTagFraming ==
    /\ swf_pc = "decompressed"
    /\ LET header_size == IF "header_size" \in DOMAIN header
                          THEN header.header_size ELSE 8
       IN  /\ swf_stream' = Slice(swf_data, header_size, Len(swf_data))
           /\ data_length' = Len(swf_data) - header_size
    /\ swf_pc' = "framing"
    /\ UNCHANGED <<swf_bytes, swf_data, header>>
    /\ UNCHANGED <<stream_bytes, result, tags_pc, framed, header_ats>>
    /\ UNCHANGED <<rect_vars, amf_vars, assets_vars, blob_vars, more_vars>>

--------------------------------------------------------------------------
(* read_export_asset_name and extract_binary_data                          *)

\* The tag types extract_binary_data reads: ExportAssets, DefineBinaryData
ExportAssetsTag == 56
DefineBinaryDataTag == 87

\* lines 475-480: the name bytes from (0-based) position pos up to a zero
\* byte or the end of data, and the position after the terminator read
RECURSIVE read_name_bytes(_, _, _)
read_name_bytes(data, pos, name_bytes) ==
    IF pos >= Len(data) THEN [name |-> name_bytes, pos |-> pos]
    ELSE IF Byte(data, pos) = 0 THEN [name |-> name_bytes, pos |-> pos + 1]
    ELSE read_name_bytes(data, pos + 1, Append(name_bytes, Byte(data, pos)))

\* lines 468-489: the entries left to read, the stream at pos
RECURSIVE read_export_entries(_, _, _, _)
read_export_entries(data, pos, left, names) ==
    IF left = 0 \/ pos + 2 > Len(data) THEN names
    ELSE LET char_id == unpack_H(Slice(data, pos, pos + 2))
             r == read_name_bytes(data, pos + 2, <<>>)
             symbol_name == decode_text(r.name)
         IN  read_export_entries(data, r.pos, left - 1,
                 IF symbol_name # <<>> THEN DictSet(names, char_id, symbol_name)
                 ELSE names)

\* read_export_asset_name with the empty names stored too
RECURSIVE read_export_entries_keep_empty(_, _, _, _)
read_export_entries_keep_empty(data, pos, left, names) ==
    IF left = 0 \/ pos + 2 > Len(data) THEN names
    ELSE LET char_id == unpack_H(Slice(data, pos, pos + 2))
             r == read_name_bytes(data, pos + 2, <<>>)
             symbol_name == decode_text(r.name)
         IN  read_export_entries_keep_empty(data, r.pos, left - 1,
                 DictSet(names, char_id, symbol_name))

read_export_asset_name_keep_empty(data) ==
    IF Len(data) < 2 THEN NewDict
    ELSE read_export_entries_keep_empty(data, 2, unpack_H(Slice(data, 0, 2)),
                                        NewDict)

\* read_export_asset_name(data): the dict from character id to name; a
\* count that cannot be read leaves it empty (the struct.error is caught)
read_export_asset_name(data) ==
    IF Len(data) < 2 THEN NewDict
    ELSE read_export_entries(data, 2, unpack_H(Slice(data, 0, 2)), NewDict)

\* tag_data[2:] in place of tag_data[6:]
binary_content_from_2(tag_data) == Slice(tag_data, 2, Len(tag_data))

\* line 581: tag_data[6:]
binary_content(tag_data) == Slice(tag_data, 6, Len(tag_data))

HasKey(o, key) == \E j \in 1..Len(o.keys) : o.keys[j] = key

GetItem(o, key) == o.vals[CHOOSE j \in 1..Len(o.keys) : o.keys[j] = key]

\* Inputs: an export table of up to MaxExportEntries entries with any
\* count up to one more, whole or cut short; up to MaxBinaryTags payloads
\* of type 87
MaxExportEntries == 2
MaxBinaryTags == 2
ExportIds == {<<7, 0>>, <<8, 0>>}
ExportNames == {<<>>, <<233>>}
ExportEntries == {id \o name \o <<0>> : id \in ExportIds, name \in ExportNames}

RECURSIVE Flatten(_)
Flatten(q) == IF q = <<>> THEN <<>> ELSE q[1] \o Flatten(Tail(q))

ExportTables ==
    LET whole == {<<count, 0>> \o Flatten(es) :
                     count \in 0..(MaxExportEntries + 1),
                     es \in UNION {SeqsOfLen(ExportEntries, n) :
                                      n \in 0..MaxExportEntries}}
    IN  whole \cup {SubSeq(t, 1, Len(t) - 1) : t \in whole} \cup {<<1>>}

BinaryPayloads ==
    {<<7, 0, 0, 0, 0, 0, 68>>, <<7, 0, 1, 2, 3, 4, 65, 66>>, <<8, 0, 1, 2>>,
     <<9, 0, 0, 0, 0, 0, 68>>, <<7>>}

AssetInputs ==
    LET tables == {[k \in {} |-> <<>>]}
                  \cup {[k \in {ExportAssetsTag} |-> <<t>>] : t \in ExportTables}
        binaries == {[k \in {} |-> <<>>]}
                    \cup {[k \in {DefineBinaryDataTag} |-> ps] :
                             ps \in UNION {SeqsOfLen(BinaryPayloads, n) :
                                              n \in 1..MaxBinaryTags}}
    IN  {t @@ b : t \in tables, b \in binaries}

\* lines 575-576, and line 578 reaching for swf_data[87]
ReadExportTable ==
    /\ assets_pc = "call"
    /\ IF ExportAssetsTag \in DOMAIN assets_in
       THEN /\ asset_symbol_names' =
                   read_export_asset_name(assets_in[ExportAssetsTag][1])
            /\ assets_pc' = IF DefineBinaryDataTag \in DOMAIN assets_in
                            THEN "loop" ELSE "raised"
       ELSE /\ assets_pc' = "raised"
            /\ UNCHANGED asset_symbol_names
    /\ UNCHANGED <<assets_in, assets_result, assets_i, assets_ret>>
    /\ UNCHANGED <<rect_vars, tags_vars, amf_vars, swf_vars, blob_vars, more_vars>>

\* lines 578-581: one payload of swf_data[87]
ResolveBinaryTag ==
    /\ assets_pc = "loop"
    /\ assets_i < Len(assets_in[DefineBinaryDataTag])
    /\ LET tag_data == assets_in[DefineBinaryDataTag][assets_i + 1]
           character_id == unpack_H(Slice(tag_data, 0, 2))
       IN  IF Len(tag_data) < 2 \/ ~HasKey(asset_symbol_names, character_id)
           THEN /\ assets_pc' = "raised"
                /\ UNCHANGED <<assets_result, assets_i>>
           ELSE /\ assets_result' =
                       DictSet(assets_result,
                               GetItem(asset_symbol_names, character_id),
                               binary_content(tag_data))
                /\ assets_i' = assets_i + 1
                /\ UNCHANGED assets_pc
    /\ UNCHANGED <<assets_in, asset_symbol_names, assets_ret>>
    /\ UNCHANGED <<rect_vars, tags_vars, amf_vars, swf_vars, blob_vars, more_vars>>

\* line 583
ReturnAssets ==
    /\ assets_pc = "loop"
    /\ assets_i = Len(assets_in[DefineBinaryDataTag])
    /\ assets_ret' = assets_result
    /\ assets_pc' = "returned"
    /\ UNCHANGED <<assets_in, asset_symbol_names, assets_result, assets_i>>
    /\ UNCHANGED <<rect_vars, tags_vars, amf_vars, swf_vars, blob_vars, more_vars>>

--------------------------------------------------------------------------
(* read_amf3_object                                                        *)

\* AMF3Reader.__init__ with the tables of the reader before it kept
AMF3Reader_init_keep_tables(data) ==
    [string_table |-> string_table, object_table |-> object_table,
     class_table |-> class_table, heap |-> heap, stack |-> <<>>,
     status |-> "running", ret |-> PyNone, log |-> <<>>]

\* AMF3Reader.__init__, lines 26-30: a reader at the start of data
AMF3Reader_init(data) ==
    [string_table |-> <<>>, object_table |-> <<>>, class_table |-> <<>>,
     heap |-> <<>>, stack |-> <<>>, status |-> "running", ret |-> PyNone,
     log |-> <<>>]

\* reader = AMF3Reader(data)
NewReader(data) ==
    LET m == AMF3Reader_init(data)
    IN  /\ amf_input' = [known |-> TRUE, bytes |-> data]
        /\ amf_length' = Len(data)
        /\ amf_data' = <<>>
        /\ string_table' = m.string_table
        /\ object_table' = m.object_table
        /\ class_table' = m.class_table
        /\ heap' = m.heap
        /\ stack' = m.stack
        /\ status' = m.status
        /\ amf_ret' = m.ret
        /\ log' = m.log

\* line 315: data[:2] == b'\x78\xda'
has_zlib_mark(data) == Slice(data, 0, 2) = <<120, 218>>

\* Inputs: buffers that exercise every read method, and zlib streams of
\* some of them, whole, damaged, or with the header 78 9C
AmfSamples ==
    {<<>>, <<4, 1>>, <<5, 66, 112, 0, 0, 0, 0, 0, 0>>,
     <<6, 3, 97>>, <<6, 0>>, <<11, 3, 97>>, <<8, 1, 0, 0, 0, 0, 0, 0, 0, 0>>,
     <<12, 3, 97>>, <<9, 1, 3, 97, 6, 0, 1>>, <<10, 19, 1, 3, 97, 10, 1, 1>>,
     <<9, 0>>}

BlobInputs ==
    AmfSamples
    \cup {zlib_stored(x) : x \in {<<6, 0>>, <<9, 1, 3, 97, 6, 0, 1>>}}
    \cup {[zlib_stored(<<1>>) EXCEPT ![2] = 156],
          [zlib_stored(<<1>>) EXCEPT ![12] = 3],
          <<120>>}

MaxDecodes == 3

Outcome(try, value, memory) ==
    [data |-> blob_data, try |-> try, value |-> value, heap |-> memory]

\* lines 308-309: read_amf3_object(data) is called and makes its reader
BlobCall ==
    /\ blob_pc = "idle"
    /\ Len(decoded) < MaxDecodes
    /\ \E data \in BlobInputs :
          /\ blob_data' = data
          /\ NewReader(data)
    /\ blob_pc' = "raw"
    /\ UNCHANGED decoded
    /\ UNCHANGED <<rect_vars, tags_vars, swf_vars, assets_vars, more_vars>>

\* lines 310 and 318: return reader.read_object()
BlobReturnDecoded ==
    /\ blob_pc \in {"raw", "inflated"}
    /\ status = "returned"
    /\ decoded' = Append(decoded, Outcome(blob_pc, amf_ret, heap))
    /\ blob_pc' = "idle"
    /\ UNCHANGED blob_data
    /\ UNCHANGED <<rect_vars, tags_vars, amf_vars, swf_vars, assets_vars, more_vars>>

\* lines 311-317: the first try raised, data carries the zlib mark and
\* inflates: a second reader on the inflated bytes
BlobRetryInflated ==
    /\ blob_pc = "raw"
    /\ status = "raised"
    /\ has_zlib_mark(blob_data)
    /\ zlib_decompress(blob_data).ok
    /\ NewReader(zlib_decompress(blob_data).data)
    /\ blob_pc' = "inflated"
    /\ UNCHANGED <<blob_data, decoded>>
    /\ UNCHANGED <<rect_vars, tags_vars, swf_vars, assets_vars, more_vars>>

\* lines 319-323: no second try, or it raised as well: return data
BlobReturnRaw ==
    /\ status = "raised"
    /\ IF blob_pc = "raw"
       THEN ~(has_zlib_mark(blob_data) /\ zlib_decompress(blob_data).ok)
       ELSE blob_pc = "inflated"
    /\ decoded' = Append(decoded, Outcome("bytes", PyBytes(blob_data), <<>>))
    /\ blob_pc' = "idle"
    /\ UNCHANGED blob_data
    /\ UNCHANGED <<rect_vars, tags_vars, amf_vars, swf_vars, assets_vars, more_vars>>

--------------------------------------------------------------------------
(* Flash.get_coredll_configs, update.py lines 169-187                      *)

\* The values of swf_configs, in the order of the dict; a blob with the
\* mark 78 DA that inflates to a decodable buffer, one that inflates to
\* an undecodable one, one that does not inflate, and unmarked ones
ConfigBlobs ==
    {<<>>, <<60, 97, 47, 62>>,
     zlib_stored(<<9, 1, 3, 97, 6, 0, 1>>),
     zlib_stored(<<10, 19, 1, 3, 97, 10, 1, 1>>),
     zlib_stored(<<6, 0>>),
     [zlib_stored(<<1>>) EXCEPT ![12] = 3]}

MaxConfigBlobs == 2

ConfigMappings == UNION {SeqsOfLen(ConfigBlobs, n) : n \in 0..MaxConfigBlobs}

CurrentBlob == cfg_blobs[cfg_i + 1]

\* a file written: the position of its key in swf_configs, and what was
\* written, the blob itself or the XML text of the decoded value
WrittenFile(kind, value, memory) ==
    [item |-> cfg_i + 1, kind |-> kind, value |-> value, heap |-> memory]

\* lines 172-173: swf_configs is there and the loop begins
ConfigsBegin ==
    /\ cfg_pc = "idle"
    /\ cfg_pc' = "loop"
    /\ UNCHANGED <<cfg_blobs, cfg_i, cfg_cause, cfg_written>>
    /\ UNCHANGED <<rect_vars, tags_vars, amf_vars, swf_vars, assets_vars,
                   blob_vars, u29_vars, update_vars>>

\* lines 174-175 and 183-187: a value without the mark is written as it is
ConfigsWriteRaw ==
    /\ cfg_pc = "loop"
    /\ cfg_i < Len(cfg_blobs)
    /\ ~has_zlib_mark(CurrentBlob)
    /\ cfg_written' = Append(cfg_written, WrittenFile("raw", PyBytes(CurrentBlob), <<>>))
    /\ cfg_i' = cfg_i + 1
    /\ UNCHANGED <<cfg_blobs, cfg_pc, cfg_cause>>
    /\ UNCHANGED <<rect_vars, tags_vars, amf_vars, swf_vars, assets_vars,
                   blob_vars, u29_vars, update_vars>>

\* lines 175-178: a value with the mark is inflated and handed to a reader
ConfigsInflate ==
    /\ cfg_pc = "loop"
    /\ cfg_i < Len(cfg_blobs)
    /\ has_zlib_mark(CurrentBlob)
    /\ zlib_decompress(CurrentBlob).ok
    /\ NewReader(zlib_decompress(CurrentBlob).data)
    /\ cfg_pc' = "decoding"
    /\ UNCHANGED <<cfg_blobs, cfg_i, cfg_cause, cfg_written>>
    /\ UNCHANGED <<rect_vars, tags_vars, swf_vars, assets_vars,
                   blob_vars, u29_vars, update_vars>>

\* line 177: zlib.decompress raises zlib.error, which nothing catches
ConfigsInflateRaises ==
    /\ cfg_pc = "loop"
    /\ cfg_i < Len(cfg_blobs)
    /\ has_zlib_mark(CurrentBlob)
    /\ ~zlib_decompress(CurrentBlob).ok
    /\ cfg_pc' = "raised"
    /\ cfg_cause' = "inflate"
    /\ UNCHANGED <<cfg_blobs, cfg_i, cfg_written>>
    /\ UNCHANGED <<rect_vars, tags_vars, amf_vars, swf_vars, assets_vars,
                   blob_vars, u29_vars, update_vars>>

\* line 178: read_object raises, which nothing catches
ConfigsDecodeRaises ==
    /\ cfg_pc = "decoding"
    /\ status = "raised"
    /\ cfg_pc' = "raised"
    /\ cfg_cause' = "decode"
    /\ UNCHANGED <<cfg_blobs, cfg_i, cfg_written>>
    /\ UNCHANGED <<rect_vars, tags_vars, amf_vars, swf_vars, assets_vars,
                   blob_vars, u29_vars, update_vars>>

\* lines 179-187: the decoded value goes through its handler and
\* xmltodict.unparse, and the text is written.  The library is not part
\* of the repository: it gives a text or raises.
ConfigsConvert ==
    /\ cfg_pc = "decoding"
    /\ status = "returned"
    /\ \E converts \in BOOLEAN :
          IF converts
          THEN /\ cfg_written' = Append(cfg_written, WrittenFile("xml", amf_ret, heap))
               /\ cfg_i' = cfg_i + 1
               /\ cfg_pc' = "loop"
               /\ UNCHANGED cfg_cause
          ELSE /\ cfg_pc' = "raised"
               /\ cfg_cause' = "convert"
               /\ UNCHANGED <<cfg_i, cfg_written>>
    /\ UNCHANGED cfg_blobs
    /\ UNCHANGED <<rect_vars, tags_vars, amf_vars, swf_vars, assets_vars,
                   blob_vars, u29_vars, update_vars>>

\* line 174: the items are exhausted
ConfigsReturn ==
    /\ cfg_pc = "loop"
    /\ cfg_i = Len(cfg_blobs)
    /\ cfg_pc' = "returned"
    /\ UNCHANGED <<cfg_blobs, cfg_i, cfg_cause, cfg_written>>
    /\ UNCHANGED <<rect_vars, tags_vars, amf_vars, swf_vars, assets_vars,
                   blob_vars, u29_vars, update_vars>>

--------------------------------------------------------------------------
(* One U29 written and read back by read_u29 and read_integer              *)

\* The U29 encoding of n in 0..2^29-1, the format read_u29 reads: up to
\* three bytes of 7 bits with the high bit set on all but the last, and
\* for 2^21 and above a fourth byte of 8 bits
encode_u29(n) ==
    IF n < 128 THEN <<n>>
    ELSE IF n < 16384 THEN <<128 + (n \div 128), n % 128>>
    ELSE IF n < 2097152
    THEN <<128 + (n \div 16384), 128 + ((n \div 128) % 128), n % 128>>
    ELSE <<128 + (n \div 4194304), 128 + ((n \div 32768) % 128),
           128 + ((n \div 256) % 128), n % 256>>

\* Integers next to the places where the encoding grows by a byte and
\* where read_integer changes sign, and their negatives
MaxSpread == 2

U29Edges == {0, 128, 16384, 2097152, 268435456, 536870912}

U29Numbers ==
    {m \in {e + d : e \in U29Edges, d \in -MaxSpread..MaxSpread} \cup
           {d - e : e \in U29Edges, d \in -MaxSpread..MaxSpread} :
        m >= -268435456 /\ m <= 536870911}

\* the bytes after the integer in the stream
U29Tails == {<<>>, <<255>>}

\* the stream holds the encoding of n mod 2^29 and what follows it
U29Encode ==
    /\ u29_pc = "start"
    /\ \E tail \in U29Tails :
          u29_bytes' = encode_u29(u29_n % 536870912) \o tail
    /\ u29_pc' = "encoded"
    /\ UNCHANGED <<u29_n, u29_ret>>
    /\ UNCHANGED <<rect_vars, tags_vars, amf_vars, swf_vars, assets_vars,
                   blob_vars, configs_vars, update_vars>>

\* reader.read_u29(), lines 32-43
U29Read ==
    /\ u29_pc = "encoded"
    /\ u29_ret' = read_u29(u29_bytes)
    /\ u29_pc' = "u29"
    /\ UNCHANGED <<u29_n, u29_bytes>>
    /\ UNCHANGED <<rect_vars, tags_vars, amf_vars, swf_vars, assets_vars,
                   blob_vars, configs_vars, update_vars>>

\* reader.read_integer(), lines 109-115
U29ReadInteger ==
    /\ u29_pc = "encoded"
    /\ u29_ret' = [read_u29(u29_bytes) EXCEPT !.value = read_integer(@)]
    /\ u29_pc' = "integer"
    /\ UNCHANGED <<u29_n, u29_bytes>>
    /\ UNCHANGED <<rect_vars, tags_vars, amf_vars, swf_vars, assets_vars,
                   blob_vars, configs_vars, update_vars>>

--------------------------------------------------------------------------
(* run(), update.py lines 310-337, with Platform.check_update and           *)
(* Platform.save_remote_version                                            *)

\* line 312: the platforms, in the order of the list
platforms == <<"flash", "html5", "unity">>

PlatformNames == {platforms[k] : k \in 1..Len(platforms)}

\* The versions a remote publishes; 0 stands for no version file
Versions == {1, 2}
NoVersion == 0

\* How often the remotes publish a new version while run() executes
MaxRemoteChanges == 1

\* the platform of the current iteration
platform_name == platforms[run_i]

RunEvent(ev, version) == [name |-> platform_name, ev |-> ev, version |-> version]

\* the for loop goes to its next platform, or to line 336 after the last
RunNextPlatform ==
    IF run_i < Len(platforms)
    THEN run_i' = run_i + 1 /\ run_pc' = "remote"
    ELSE run_i' = run_i /\ run_pc' = "push"

\* A remote publishes another version; this is not a step of run()
RemoteChanges ==
    /\ run_pc \notin {"idle", "done", "raised"}
    /\ remote_changes < MaxRemoteChanges
    /\ \E p \in PlatformNames, v \in Versions :
          /\ v # remote[p]
          /\ remote' = [remote EXCEPT ![p] = v]
    /\ remote_changes' = remote_changes + 1
    /\ UNCHANGED <<run_pc, run_i, version_file, remote_version, fetched,
                   run_log, has_update>>
    /\ UNCHANGED <<rect_vars, tags_vars, amf_vars, swf_vars, assets_vars,
                   blob_vars, configs_vars, u29_vars, dl_vars>>

\* lines 318-323: the local version is printed, or that there is none,
\* and remote_version = platform.get_remote_version()
RunGetRemoteVersion ==
    /\ run_pc = "remote"
    /\ remote_version' = remote[platform_name]
    /\ run_pc' = "check"
    /\ UNCHANGED <<run_i, remote, remote_changes, version_file, fetched,
                   run_log, has_update>>
    /\ UNCHANGED <<rect_vars, tags_vars, amf_vars, swf_vars, assets_vars,
                   blob_vars, configs_vars, u29_vars, dl_vars>>

\* check_update that is True when the two versions are equal
check_update_when_equal(local_version, remote_now) ==
    IF local_version = NoVersion THEN TRUE ELSE local_version = remote_now

\* check_update, lines 131-136: True without a version file, otherwise
\* whether the file differs from get_remote_version(), fetched now
check_update(local_version, remote_now) ==
    IF local_version = NoVersion THEN TRUE ELSE local_version # remote_now

\* lines 324-326: not platform.check_update(): continue
RunUpToDate ==
    /\ run_pc = "check"
    /\ ~check_update(version_file[platform_name], remote[platform_name])
    /\ run_log' = Append(run_log, RunEvent("up_to_date", remote[platform_name]))
    /\ RunNextPlatform
    /\ UNCHANGED <<remote, remote_changes, version_file, remote_version,
                   fetched, has_update>>
    /\ UNCHANGED <<rect_vars, tags_vars, amf_vars, swf_vars, assets_vars,
                   blob_vars, configs_vars, u29_vars, dl_vars>>

\* lines 324 and 328: check_update() is True
RunNeedsUpdate ==
    /\ run_pc = "check"
    /\ check_update(version_file[platform_name], remote[platform_name])
    /\ run_pc' = "configs"
    /\ UNCHANGED <<run_i, remote, remote_changes, version_file,
                   remote_version, fetched, run_log, has_update>>
    /\ UNCHANGED <<rect_vars, tags_vars, amf_vars, swf_vars, assets_vars,
                   blob_vars, configs_vars, u29_vars, dl_vars>>

\* line 329: await platform.get_configs() returns, having fetched what
\* the remote publishes now
RunGetConfigs ==
    /\ run_pc = "configs"
    /\ fetched' = [fetched EXCEPT ![platform_name] = remote[platform_name]]
    /\ run_log' = Append(run_log, RunEvent("get_configs", remote[platform_name]))
    /\ run_pc' = "save"
    /\ UNCHANGED <<run_i, remote, remote_changes, version_file,
                   remote_version, has_update>>
    /\ UNCHANGED <<rect_vars, tags_vars, amf_vars, swf_vars, assets_vars,
                   blob_vars, configs_vars, u29_vars, dl_vars>>

\* line 329: get_configs raises, and run() with it
RunGetConfigsRaises ==
    /\ run_pc = "configs"
    /\ run_log' = Append(run_log, RunEvent("get_configs_raised", remote[platform_name]))
    /\ run_pc' = "raised"
    /\ UNCHANGED <<run_i, remote, remote_changes, version_file,
                   remote_version, fetched, has_update>>
    /\ UNCHANGED <<rect_vars, tags_vars, amf_vars, swf_vars, assets_vars,
                   blob_vars, configs_vars, u29_vars, dl_vars>>

\* line 330 and save_remote_version, lines 128-129: the version file is
\* written with get_remote_version(), fetched now
RunSaveRemoteVersion ==
    /\ run_pc = "save"
    /\ version_file' = [version_file EXCEPT ![platform_name] = remote[platform_name]]
    /\ run_log' = Append(run_log, RunEvent("save", remote[platform_name]))
    /\ run_pc' = "commit"
    /\ UNCHANGED <<run_i, remote, remote_changes, remote_version, fetched,
                   has_update>>
    /\ UNCHANGED <<rect_vars, tags_vars, amf_vars, swf_vars, assets_vars,
                   blob_vars, configs_vars, u29_vars, dl_vars>>

\* lines 331-334: manager.commit with the message naming remote_version;
\* commit() returns False when the work tree has no changes, and run()
\* does not look at what it returns
RunCommit ==
    /\ run_pc = "commit"
    /\ \E committed \in BOOLEAN :
          run_log' = Append(run_log,
                            RunEvent(IF committed THEN "commit" ELSE "no_commit",
                                     remote_version))
    /\ RunNextPlatform
    /\ UNCHANGED <<remote, remote_changes, version_file, remote_version,
                   fetched, has_update>>
    /\ UNCHANGED <<rect_vars, tags_vars, amf_vars, swf_vars, assets_vars,
                   blob_vars, configs_vars, u29_vars, dl_vars>>

\* get_remote_version raises (raise_for_status, a transport error) at
\* line 323, inside check_update or inside save_remote_version
RunRemoteVersionRaises ==
    /\ \/ run_pc \in {"remote", "save"}
       \/ run_pc = "check" /\ version_file[platform_name] # NoVersion
    /\ run_pc' = "raised"
    /\ UNCHANGED <<run_i, remote, remote_changes, version_file,
                   remote_version, fetched, run_log, has_update>>
    /\ UNCHANGED <<rect_vars, tags_vars, amf_vars, swf_vars, assets_vars,
                   blob_vars, configs_vars, u29_vars, dl_vars>>

\* lines 336-337 and DataRepoManager.push, _common.py lines 137-177:
\* push() is True unless the push reports an error
RunPush ==
    /\ run_pc = "push"
    /\ \E pushed \in BOOLEAN :
          has_update' = IF pushed THEN "true" ELSE has_update
    /\ run_pc' = "done"
    /\ UNCHANGED <<run_i, remote, remote_changes, version_file,
                   remote_version, fetched, run_log>>
    /\ UNCHANGED <<rect_vars, tags_vars, amf_vars, swf_vars, assets_vars,
                   blob_vars, configs_vars, u29_vars, dl_vars>>

--------------------------------------------------------------------------
(* download_data_async, update.py lines 208-240                            *)

MaxTasks == 2
MaxRetries == 2

\* What client.get and raise_for_status give: a response that passes, a
\* response whose status raises HTTPStatusError, or another httpx.HTTPError
Responses == {"ok", "status_error", "transport_error"}

DlEvent(ev, n) == [task |-> dl_i + 1, ev |-> ev, n |-> n]

\* lines 218-222: the next task begins with attempt = 0 and a backoff of
\* 0.5 s, counted here in half seconds
DlNextTask ==
    /\ dl_i' = dl_i + 1
    /\ attempt' = 0
    /\ backoff_seconds' = 1
    /\ dl_pc' = "request"

\* lines 224-225: client.get(url) and raise_for_status()
DlGet ==
    /\ dl_pc = "request"
    /\ dl_i < dl_tasks
    /\ \E response \in Responses :
          /\ dl_response' = response
          /\ dl_log' = Append(dl_log, DlEvent("get", attempt))
    /\ dl_pc' = "response"
    /\ UNCHANGED <<dl_tasks, max_retries, dl_i, attempt, backoff_seconds>>
    /\ UNCHANGED <<rect_vars, tags_vars, amf_vars, swf_vars, assets_vars,
                   blob_vars, configs_vars, u29_vars, run_vars>>

\* lines 226-227: the content is written and the while loop is left
DlWrite ==
    /\ dl_pc = "response"
    /\ dl_response = "ok"
    /\ dl_log' = Append(dl_log, DlEvent("write", attempt))
    /\ DlNextTask
    /\ UNCHANGED <<dl_tasks, max_retries, dl_response>>
    /\ UNCHANGED <<rect_vars, tags_vars, amf_vars, swf_vars, assets_vars,
                   blob_vars, configs_vars, u29_vars, run_vars>>

\* lines 228-230: HTTPStatusError is printed and the while loop is left
DlStatusError ==
    /\ dl_pc = "response"
    /\ dl_response = "status_error"
    /\ dl_log' = Append(dl_log, DlEvent("status_error", attempt))
    /\ DlNextTask
    /\ UNCHANGED <<dl_tasks, max_retries, dl_response>>
    /\ UNCHANGED <<rect_vars, tags_vars, amf_vars, swf_vars, assets_vars,
                   blob_vars, configs_vars, u29_vars, run_vars>>

\* the test of line 233 that gives up one attempt early
retries_exhausted_early(attempts, retries) == attempts >= retries

\* line 233: attempt > max_retries
retries_exhausted(attempts, retries) == attempts > retries

\* lines 231-236: another HTTPError: attempt += 1, then raise or sleep
DlTransportError ==
    /\ dl_pc = "response"
    /\ dl_response = "transport_error"
    /\ attempt' = attempt + 1
    /\ IF retries_exhausted(attempt + 1, max_retries)
       THEN /\ dl_pc' = "raised"
            /\ dl_log' = Append(dl_log, DlEvent("raise", attempt + 1))
            /\ UNCHANGED backoff_seconds
       ELSE /\ dl_pc' = "request"
            /\ dl_log' = Append(dl_log, DlEvent("sleep", backoff_seconds))
            /\ backoff_seconds' = backoff_seconds * 2
    /\ UNCHANGED <<dl_tasks, max_retries, dl_i, dl_response>>
    /\ UNCHANGED <<rect_vars, tags_vars, amf_vars, swf_vars, assets_vars,
                   blob_vars, configs_vars, u29_vars, run_vars>>

\* lines 217 and 238: the tasks are exhausted
DlReturn ==
    /\ dl_pc = "request"
    /\ dl_i = dl_tasks
    /\ dl_pc' = "done"
    /\ UNCHANGED <<dl_tasks, max_retries, dl_i, attempt, backoff_seconds,
                   dl_response, dl_log>>
    /\ UNCHANGED <<rect_vars, tags_vars, amf_vars, swf_vars, assets_vars,
                   blob_vars, configs_vars, u29_vars, run_vars>>

--------------------------------------------------------------------------
(* The specifications.  Each runs one component; the variables of the      *)
(* others stay idle.                                                       *)

RectIdle ==
    /\ rect_data = <<>>
    /\ rect_offset = 0
    /\ rect_ret = [rect |-> EmptyDict, end |-> 0]
    /\ rect_pc = "idle"

TagsIdle ==
    /\ data_length = 0
    /\ stream_bytes = <<>>
    /\ result = EmptyDict
    /\ tags_pc = "idle"
    /\ framed = <<>>
    /\ header_ats = <<>>

AmfIdle ==
    /\ amf_input = UnknownInput
    /\ amf_length = 0
    /\ amf_data = <<>>
    /\ string_table = <<>>
    /\ object_table = <<>>
    /\ class_table = <<>>
    /\ heap = <<>>
    /\ stack = <<>>
    /\ status = "idle"
    /\ amf_ret = PyNone
    /\ log = <<>>

SwfIdle ==
    /\ swf_bytes = <<>>
    /\ swf_pc = "idle"
    /\ swf_data = <<>>
    /\ header = NoHeader
    /\ swf_stream = <<>>

AssetsIdle ==
    /\ assets_in = [k \in {} |-> <<>>]
    /\ asset_symbol_names = NewDict
    /\ assets_result = NewDict
    /\ assets_i = 0
    /\ assets_pc = "idle"
    /\ assets_ret = NewDict

BlobIdle ==
    /\ blob_data = <<>>
    /\ blob_pc = "idle"
    /\ decoded = <<>>

ConfigsIdle ==
    /\ cfg_blobs = <<>>
    /\ cfg_i = 0
    /\ cfg_pc = "idle"
    /\ cfg_cause = "none"
    /\ cfg_written = <<>>

U29Idle ==
    /\ u29_n = 0
    /\ u29_bytes = <<>>
    /\ u29_pc = "idle"
    /\ u29_ret = [ok |-> FALSE, value |-> 0, used |-> 0]

RunIdle ==
    /\ run_pc = "idle"
    /\ run_i = 1
    /\ remote = [p \in PlatformNames |-> 1]
    /\ remote_changes = 0
    /\ version_file = [p \in PlatformNames |-> NoVersion]
    /\ remote_version = NoVersion
    /\ fetched = [p \in PlatformNames |-> NoVersion]
    /\ run_log = <<>>
    /\ has_update = "unset"

DlIdle ==
    /\ dl_tasks = 0
    /\ max_retries = 0
    /\ dl_i = 0
    /\ attempt = 0
    /\ backoff_seconds = 1
    /\ dl_response = "none"
    /\ dl_pc = "idle"
    /\ dl_log = <<>>

UpdateIdle == RunIdle /\ DlIdle

MoreIdle == ConfigsIdle /\ U29Idle /\ UpdateIdle

\* run() at line 317, for every content of the version files and every
\* version the remotes publish
InitRun ==
    /\ RectIdle
    /\ TagsIdle
    /\ AmfIdle
    /\ SwfIdle
    /\ AssetsIdle
    /\ BlobIdle
    /\ ConfigsIdle
    /\ U29Idle
    /\ DlIdle
    /\ run_pc = "remote"
    /\ run_i = 1
    /\ remote \in [PlatformNames -> Versions]
    /\ remote_changes = 0
    /\ version_file \in [PlatformNames -> Versions \cup {NoVersion}]
    /\ remote_version = NoVersion
    /\ fetched = [p \in PlatformNames |-> NoVersion]
    /\ run_log = <<>>
    /\ has_update = "unset"

\* download_data_async at line 217, for up to MaxTasks tasks and
\* max_retries up to MaxRetries
InitDl ==
    /\ RectIdle
    /\ TagsIdle
    /\ AmfIdle
    /\ SwfIdle
    /\ AssetsIdle
    /\ BlobIdle
    /\ ConfigsIdle
    /\ U29Idle
    /\ RunIdle
    /\ dl_tasks \in 0..MaxTasks
    /\ max_retries \in 0..MaxRetries
    /\ dl_i = 0
    /\ attempt = 0
    /\ backoff_seconds = 1
    /\ dl_response = "none"
    /\ dl_pc = "request"
    /\ dl_log = <<>>

OtherIdle == SwfIdle /\ AssetsIdle /\ BlobIdle /\ MoreIdle

\* An integer drawn from U29Numbers, not yet written
InitU29 ==
    /\ RectIdle
    /\ TagsIdle
    /\ AmfIdle
    /\ SwfIdle
    /\ AssetsIdle
    /\ BlobIdle
    /\ ConfigsIdle
    /\ UpdateIdle
    /\ u29_n \in U29Numbers
    /\ u29_bytes = <<>>
    /\ u29_pc = "start"
    /\ u29_ret = [ok |-> FALSE, value |-> 0, used |-> 0]

\* get_coredll_configs with the mapping drawn from ConfigMappings
InitConfigs ==
    /\ RectIdle
    /\ TagsIdle
    /\ AmfIdle
    /\ SwfIdle
    /\ AssetsIdle
    /\ BlobIdle
    /\ U29Idle
    /\ UpdateIdle
    /\ cfg_blobs \in ConfigMappings
    /\ cfg_i = 0
    /\ cfg_pc = "idle"
    /\ cfg_cause = "none"
    /\ cfg_written = <<>>

\* Before the first call of read_amf3_object
InitBlob ==
    /\ RectIdle
    /\ TagsIdle
    /\ AmfIdle
    /\ SwfIdle
    /\ AssetsIdle
    /\ BlobIdle
    /\ MoreIdle

\* extract_binary_data(swf_data) for a dict drawn from AssetInputs
InitAssets ==
    /\ RectIdle
    /\ TagsIdle
    /\ AmfIdle
    /\ SwfIdle
    /\ BlobIdle
    /\ MoreIdle
    /\ assets_in \in AssetInputs
    /\ asset_symbol_names = NewDict
    /\ assets_result = NewDict
    /\ assets_i = 0
    /\ assets_pc = "call"
    /\ assets_ret = NewDict

\* extract_swf_data(swf_bytes) for a container drawn from SwfContainers
InitSwf ==
    /\ RectIdle
    /\ TagsIdle
    /\ AmfIdle
    /\ AssetsIdle
    /\ BlobIdle
    /\ MoreIdle
    /\ swf_bytes \in SwfContainers
    /\ swf_pc = "call"
    /\ swf_data = <<>>
    /\ header = NoHeader
    /\ swf_stream = <<>>

\* AMF3Reader(data) with len(data) <= MaxAmfLen, before read_object()
InitAmf ==
    /\ RectIdle
    /\ TagsIdle
    /\ OtherIdle
    /\ amf_input = UnknownInput
    /\ amf_length \in 0..MaxAmfLen
    /\ amf_data = <<>>
    /\ string_table = <<>>
    /\ object_table = <<>>
    /\ class_table = <<>>
    /\ heap = <<>>
    /\ stack = <<>>
    /\ status = "running"
    /\ amf_ret = PyNone
    /\ log = <<>>

InitRect ==
    /\ TagsIdle
    /\ AmfIdle
    /\ OtherIdle
    /\ \E p \in 0..MaxRectPrefix, f \in RectFirstBytes, b \in RectBodies :
          /\ rect_data = [i \in 1..p |-> 255] \o <<f>> \o b
          /\ rect_offset = p
    /\ rect_ret = [rect |-> EmptyDict, end |-> 0]
    /\ rect_pc = "call"

InitTags ==
    /\ RectIdle
    /\ AmfIdle
    /\ OtherIdle
    /\ data_length \in 0..MaxTagLen
    /\ stream_bytes = <<>>
    /\ result = EmptyDict
    /\ tags_pc = "loop"
    /\ framed = <<>>
    /\ header_ats = <<>>

NextRect == ParseRect

SpecRect == InitRect /\ [][NextRect]_vars

NextTags == TagLoopIteration \/ TagLoopExit

SpecTags == InitTags /\ [][NextTags]_vars

\* The loop runs in one thread that nothing suspends: an iteration that can
\* run does run.
SpecTagsFair == SpecTags /\ WF_vars(NextTags)

NextAmf ==
    \/ ReadObjectAtEnd
    \/ ReadObjectPrimitive
    \/ ReadObjectUnknown
    \/ ReadInteger
    \/ ReadDouble
    \/ ReadStringValue
    \/ ReadStringField
    \/ ReadXml
    \/ ReadDate
    \/ ReadArray
    \/ ReadGenericObject
    \/ ReadByteArray
    \/ ReturnComposite

SpecAmf == InitAmf /\ [][NextAmf]_vars

\* read_object runs in one thread that nothing suspends: a read that can
\* run does run.  MaxFairAmfLen bounds the length of the buffer here.
MaxFairAmfLen == 6

InitAmfFair == InitAmf /\ amf_length <= MaxFairAmfLen

SpecAmfFair == InitAmfFair /\ [][NextAmf]_vars /\ WF_vars(NextAmf)

NextSwf == DecompressSwf \/ BeginTagFraming

SpecSwf == InitSwf /\ [][NextSwf]_vars

NextAssets == ReadExportTable \/ ResolveBinaryTag \/ ReturnAssets

SpecAssets == InitAssets /\ [][NextAssets]_vars

NextBlob ==
    \/ BlobCall
    \/ BlobReturnDecoded
    \/ BlobRetryInflated
    \/ BlobReturnRaw
    \/ (blob_pc # "idle" /\ NextAmf)

SpecBlob == InitBlob /\ [][NextBlob]_vars

NextConfigs ==
    \/ ConfigsBegin
    \/ ConfigsWriteRaw
    \/ ConfigsInflate
    \/ ConfigsInflateRaises
    \/ ConfigsDecodeRaises
    \/ ConfigsConvert
    \/ ConfigsReturn
    \/ (cfg_pc = "decoding" /\ NextAmf)

SpecConfigs == InitConfigs /\ [][NextConfigs]_vars

NextU29 == U29Encode \/ U29Read \/ U29ReadInteger

SpecU29 == InitU29 /\ [][NextU29]_vars

NextRun ==
    \/ RemoteChanges
    \/ RunGetRemoteVersion
    \/ RunUpToDate
    \/ RunNeedsUpdate
    \/ RunGetConfigs
    \/ RunGetConfigsRaises
    \/ RunSaveRemoteVersion
    \/ RunCommit
    \/ RunRemoteVersionRaises
    \/ RunPush

SpecRun == InitRun /\ [][NextRun]_vars

NextDl == DlGet \/ DlWrite \/ DlStatusError \/ DlTransportError \/ DlReturn

SpecDl == InitDl /\ [][NextDl]_vars

--------------------------------------------------------------------------
(* Claims about AMF3Reader (SpecAmf).  The claims read the history log     *)
(* and the entries recorded in the frames, and compare them with the       *)
(* tables and the heap the reader built.                                   *)

LogIndexes == 1..Len(log)

\* d[key] for a key of the dict o
DictGet(o, key) == o.vals[CHOOSE j \in 1..Len(o.keys) : o.keys[j] = key]

DictKeys(o) == {o.keys[j] : j \in 1..Len(o.keys)}

\* The same keys bound to the same values, whatever the order
SameMapping(o1, o2) ==
    /\ o1.kind = "dict" /\ o2.kind = "dict"
    /\ DictKeys(o1) = DictKeys(o2)
    /\ \A key \in DictKeys(o1) : DictGet(o1, key) = DictGet(o2, key)

\* The mapping of the associative entries, then the dense values under
\* "0".."L-1", a later write to a key replacing the earlier one
RECURSIVE WriteAssoc(_, _)
WriteAssoc(o, entries) ==
    IF entries = <<>> THEN o
    ELSE WriteAssoc(DictSet(o, entries[1][1], entries[1][2]),
                    SubSeq(entries, 2, Len(entries)))

RECURSIVE WriteDense(_, _, _)
WriteDense(o, values, i) ==
    IF i >= Len(values) THEN o
    ELSE WriteDense(DictSet(o, PyStrOfInt(i), values[i + 1]), values, i + 1)

ExpectedArray(f) ==
    IF f.assoc = <<>>
    THEN [kind |-> "list", keys |-> <<>>, vals |-> f.dense]
    ELSE WriteDense(WriteAssoc(NewDict, f.assoc), f.dense, 0)

ArrayAsExpected(f) ==
    LET o == heap[f.array]
        x == ExpectedArray(f)
    IN  IF f.assoc = <<>> THEN o = x ELSE SameMapping(o, x)

\* C1: when read_array is about to return, its result is the list of the L
\* dense values read if no associative entry was read, and otherwise the
\* mapping of every associative key read to its value plus "0".."L-1" to
\* the dense values; no entry read from the stream is missing.
C1_ArrayResult ==
    \A d \in 1..Len(stack) :
        (stack[d].fn = "read_array" /\ stack[d].pc = "return")
            => /\ Len(stack[d].dense) = stack[d].length
               /\ ArrayAsExpected(stack[d])

\* The events of a composite returning its result
IsCompositeReturn(e) ==
    e.ev = "return" /\ e.ctx \in {"read_array", "read_generic_object"}

\* The events of an object reference that was in range
IsObjectReference(e) == e.ev = "objref" /\ e.u29 \div 2 < e.n

\* C2: a composite under construction sits in object_table at the index it
\* was registered with, and that index denotes the value the composite's
\* read_array / read_generic_object returns: every reference to the index
\* decoded before or after the return yields that value, and the table
\* still holds it at that index afterwards.
C2_RegisteredIndexDenotesResult ==
    /\ \A d \in 1..Len(stack) :
          /\ stack[d].reg < Len(object_table)
          /\ object_table[stack[d].reg + 1] = PyRef(stack[d].array)
    /\ \A j \in LogIndexes :
          IsCompositeReturn(log[j])
              => /\ log[j].n < Len(object_table)
                 /\ object_table[log[j].n + 1] = log[j].val
                 /\ \A i \in LogIndexes :
                       (IsObjectReference(log[i]) /\ log[i].u29 \div 2 = log[j].n)
                           => log[i].val = log[j].val

\* The read_string calls that decoded a non-empty inline string
IsInlineString(e) ==
    e.ev = "string" /\ e.u29 >= 0 /\ e.u29 % 2 = 1 /\ e.val.s # <<>>

\* The read_string calls that resolved a reference
IsStringReference(e) ==
    e.ev = "string" /\ e.u29 >= 0 /\ e.u29 % 2 = 0 /\ e.u29 \div 2 < e.n

RECURSIVE InlineStrings(_)
InlineStrings(lg) ==
    IF lg = <<>> THEN <<>>
    ELSE LET rest == InlineStrings(SubSeq(lg, 1, Len(lg) - 1))
             e == lg[Len(lg)]
         IN  IF IsInlineString(e) THEN Append(rest, e.val.s) ELSE rest

\* C3: string_table is the sequence of the non-empty inline strings decoded
\* so far, in order (an empty inline string and a reference add nothing),
\* and a string reference i in range returned the i-th of the non-empty
\* inline strings decoded before it.
C3_StringTable ==
    /\ string_table = InlineStrings(log)
    /\ \A j \in LogIndexes :
          IsStringReference(log[j])
              => LET before == InlineStrings(SubSeq(log, 1, j - 1))
                 IN  /\ log[j].u29 \div 2 < Len(before)
                     /\ log[j].val.s = before[log[j].u29 \div 2 + 1]

\* A string was decoded inline and non-empty, an empty inline string was
\* decoded, and a reference returned the inline one
C3_Witness ==
    /\ string_table # <<>>
    /\ \E j \in LogIndexes : IsStringReference(log[j]) /\ log[j].val.s # <<>>
    /\ \E j \in LogIndexes :
          log[j].ev = "string" /\ log[j].u29 = 1 /\ log[j].val.s = <<>>

\* The objects that brought an inline class definition / completed it
DefinesClass(k) == \E j \in LogIndexes : log[j].ev = "classdef" /\ log[j].owner = k

\* The index in class_table of the class of the object registered as k,
\* -1 while it has none
ClassIndexOf(k) ==
    IF \E j \in LogIndexes :
           log[j].owner = k /\ \/ log[j].ev = "classdefined"
                               \/ log[j].ev = "classref" /\ log[j].u29 \div 4 < log[j].n
    THEN LET j == CHOOSE j \in LogIndexes :
                      log[j].owner = k /\ \/ log[j].ev = "classdefined"
                                          \/ log[j].ev = "classref"
                                             /\ log[j].u29 \div 4 < log[j].n
         IN  IF log[j].ev = "classdefined" THEN log[j].n ELSE log[j].u29 \div 4
    ELSE -1

RECURSIVE Dedup(_)
Dedup(q) ==
    IF q = <<>> THEN <<>>
    ELSE LET rest == Dedup(SubSeq(q, 1, Len(q) - 1))
         IN  IF \E j \in 1..Len(rest) : rest[j] = q[Len(q)] THEN rest
             ELSE Append(rest, q[Len(q)])

IsPrefix(p, q) == Len(p) <= Len(q) /\ SubSeq(q, 1, Len(p)) = p

\* The keys a class definition gives each of its instances, in order
ClassKeys(class_def) ==
    Dedup((IF class_def.class_name # <<>> THEN <<ClassKey>> ELSE <<>>)
          \o class_def.properties)

ReadsDynamicSection(k) ==
    \E j \in LogIndexes :
        log[j].ev = "string" /\ log[j].ctx = "dyn_key" /\ log[j].owner = k

\* C4: class_table has one entry per inline class definition completed and
\* none per class reference; the class name and the sealed property names
\* are read from the stream once, by the object that carries the inline
\* definition; every generic object returned has the class tag and the
\* sealed property names of its class_table entry, in the declared order,
\* and read a dynamic section iff that entry is dynamic.
C4_ClassDefinitionReused ==
    /\ Len(class_table) = Cardinality({j \in LogIndexes : log[j].ev = "classdefined"})
    /\ \A j \in LogIndexes :
          (log[j].ev = "string" /\ log[j].ctx \in {"class_name", "prop_name"})
              => DefinesClass(log[j].owner)
    /\ \A j \in LogIndexes :
          log[j].ev = "classdefined"
              => /\ log[j].n < Len(class_table)
                 /\ Cardinality({i \in LogIndexes :
                        log[i].ev = "string" /\ log[i].ctx = "class_name"
                        /\ log[i].owner = log[j].owner}) = 1
                 /\ Cardinality({i \in LogIndexes :
                        log[i].ev = "string" /\ log[i].ctx = "prop_name"
                        /\ log[i].owner = log[j].owner})
                    = Len(class_table[log[j].n + 1].properties)
    /\ \A j \in LogIndexes :
          (log[j].ev = "return" /\ log[j].ctx = "read_generic_object")
              => LET c == ClassIndexOf(log[j].n)
                     o == heap[log[j].val.n]
                 IN  /\ c >= 0 /\ c < Len(class_table)
                     /\ IsPrefix(ClassKeys(class_table[c + 1]), o.keys)
                     /\ class_table[c + 1].class_name # <<>>
                            => o.vals[1] = PyStr(class_table[c + 1].class_name)
                     /\ ReadsDynamicSection(log[j].n) <=> class_table[c + 1].dynamic

\* Two generic objects of one class with a sealed property were returned,
\* the second by a class reference
C4_Witness ==
    \E i, j \in LogIndexes :
        /\ log[i].ev = "return" /\ log[i].ctx = "read_generic_object"
        /\ log[j].ev = "return" /\ log[j].ctx = "read_generic_object"
        /\ log[i].n # log[j].n
        /\ ClassIndexOf(log[i].n) = ClassIndexOf(log[j].n)
        /\ ClassIndexOf(log[i].n) >= 0
        /\ ClassIndexOf(log[i].n) < Len(class_table)
        /\ class_table[ClassIndexOf(log[i].n) + 1].properties # <<>>
        /\ DefinesClass(log[i].n) # DefinesClass(log[j].n)

\* The malformed inputs of C5 whose check is the next thing the reader does
IsMalformed(e) ==
    \/ e.ev = "marker" /\ e.n > AMF3_BYTE_ARRAY
    \/ e.ev = "string" /\ e.u29 >= 0 /\ e.u29 % 2 = 0 /\ e.u29 \div 2 >= e.n
    \/ e.ev = "objref" /\ e.u29 \div 2 >= e.n
    \/ e.ev = "classref" /\ e.u29 \div 4 >= e.n

\* An inline class definition with the externalizable bit
IsExternalizable(e) == e.ev = "classdef" /\ (e.u29 \div 4) % 2 = 1

\* C5: after an unknown type marker or a string, object or class reference
\* out of range the reader has raised and returned nothing; after an inline
\* class definition with the externalizable bit it reads no more than the
\* class name, then has raised.
C5_MalformedRaises ==
    \A j \in LogIndexes :
        /\ IsMalformed(log[j]) => (status = "raised" /\ amf_ret = PyNone)
        /\ IsExternalizable(log[j])
              => \/ status = "raised" /\ amf_ret = PyNone
                 \/ /\ status = "running"
                    /\ TopPc = "class_name"
                    /\ Owner(Reader) = log[j].owner
                    /\ j = Len(log)

\* A nested object with the externalizable bit had its class name read and
\* the reader raised
C5_Witness ==
    /\ status = "raised"
    /\ Len(stack) >= 2
    /\ \E j \in LogIndexes :
          /\ IsExternalizable(log[j])
          /\ j < Len(log)
          /\ log[Len(log)].ev = "string" /\ log[Len(log)].ctx = "class_name"
          /\ log[Len(log)].u29 >= 0

--------------------------------------------------------------------------
(* Claims about the tag framing loop (SpecTags).  The claims read the      *)
(* framing off the bytes of the stream, not off what the loop computed.    *)

\* The header word, declared length and payload offset of the tag whose
\* header starts at offset at
TagWord(at) == Byte(stream_bytes, at) + 256 * Byte(stream_bytes, at + 1)
TagIsLong(at) == TagWord(at) % 64 = 63
TagDeclared(at) ==
    IF TagIsLong(at)
    THEN Byte(stream_bytes, at + 2) + 256 * Byte(stream_bytes, at + 3)
         + 65536 * Byte(stream_bytes, at + 4)
         + 16777216 * Byte(stream_bytes, at + 5)
    ELSE TagWord(at) % 64
TagPayloadAt(at) == at + (IF TagIsLong(at) THEN 6 ELSE 2)
TagFits(at) == TagDeclared(at) <= data_length - TagPayloadAt(at)
\* Where the loop read its next header after the one at offset at; tell
\* when it read none
TagNextAt(at) ==
    LET later == {header_ats[k] : k \in 1..Len(header_ats)} \cap ((at + 1)..data_length)
    IN  IF later = {} THEN tell
        ELSE CHOOSE x \in later : \A y \in later : x <= y

\* The non-empty payloads of the framed tags of type t, in stream order
RECURSIVE PayloadsOfType(_, _)
PayloadsOfType(fs, t) ==
    IF fs = <<>> THEN <<>>
    ELSE LET f == Head(fs)
         IN  (IF TagWord(f.at) \div 64 = t /\ f.tag_data # <<>>
              THEN <<f.tag_data>> ELSE <<>>)
             \o PayloadsOfType(Tail(fs), t)

\* C6: a tag of type zero ends the iteration: the zero-type tag is never
\* added to the result, and no tag after it in the stream is added, whatever
\* its declared length (the end tag of length zero included).
C6_ZeroTypeTerminates ==
    /\ 0 \notin DOMAIN result
    /\ \A i \in 1..Len(framed) :
          TagWord(framed[i].at) \div 64 = 0 =>
             /\ ~framed[i].kept
             /\ \A j \in (i + 1)..Len(framed) : ~framed[j].kept

\* C7: the header is a 16-bit little-endian word, type = word >> 6, length =
\* word & 0x3F, replaced by the 32-bit little-endian value of the next 4
\* bytes when it is 0x3F; when the declared length fits in the buffer the
\* payload is exactly that many following bytes and the next header starts
\* right after the payload.
C7_TagFraming ==
    \A i \in 1..Len(framed) :
       LET f == framed[i]
           payload_at == TagPayloadAt(f.at)
           declared == TagDeclared(f.at)
       IN  /\ f.at + 2 <= tell
           /\ payload_at <= tell
           /\ f.tag_type = TagWord(f.at) \div 64
           /\ TagFits(f.at) =>
                 /\ Len(f.tag_data) = declared
                 /\ f.tag_data = Slice(stream_bytes, payload_at, payload_at + declared)
                 /\ TagNextAt(f.at) = payload_at + declared

\* C7 witness: a long-form tag with a payload was framed, and a tag after it
C7_Witness ==
    \E i \in 1..Len(framed) :
       /\ i < Len(framed)
       /\ TagIsLong(framed[i].at)
       /\ TagDeclared(framed[i].at) >= 1
       /\ TagFits(framed[i].at)

\* A tag whose declared length exceeds the bytes after its header
TagOverruns(at) == TagDeclared(at) > data_length - TagPayloadAt(at)

\* C8 as stated: the payload of an overrunning tag is the remaining bytes,
\* is appended under the tag's type when non-empty, and the iteration ends.
C8_ClampedAppended ==
    \A i \in 1..Len(framed) :
       LET f == framed[i]
           t == TagWord(f.at) \div 64
       IN  TagOverruns(f.at) =>
              /\ f.tag_data = Slice(stream_bytes, TagPayloadAt(f.at), data_length)
              /\ Len(f.tag_data) = data_length - TagPayloadAt(f.at)
              /\ f.tag_data # <<>> =>
                    /\ t \in DOMAIN result
                    /\ result[t][Len(result[t])] = f.tag_data
              /\ i = Len(framed)
              /\ tell = data_length

\* C8 amended: as C8, but the clamped payload is appended only when the
\* tag's type is not zero; a zero-type tag adds nothing.
C8_ClampedAppendedUnlessTypeZero ==
    \A i \in 1..Len(framed) :
       LET f == framed[i]
           t == TagWord(f.at) \div 64
       IN  TagOverruns(f.at) =>
              /\ f.tag_data = Slice(stream_bytes, TagPayloadAt(f.at), data_length)
              /\ Len(f.tag_data) = data_length - TagPayloadAt(f.at)
              /\ (f.tag_data # <<>> /\ t # 0) =>
                    /\ t \in DOMAIN result
                    /\ result[t][Len(result[t])] = f.tag_data
              /\ t = 0 => (~f.kept /\ 0 \notin DOMAIN result)
              /\ i = Len(framed)
              /\ tell = data_length

\* C8 witness: an overrunning tag of a non-zero type, after an earlier tag,
\* left a non-empty clamped payload in the result
C8_Witness ==
    /\ Len(framed) >= 2
    /\ LET f == framed[Len(framed)]
       IN  /\ TagOverruns(f.at)
           /\ f.tag_data # <<>>
           /\ f.kept

\* C9: under every type t the result holds exactly the non-empty payloads of
\* the type-t tags framed so far, in stream order; it holds no empty
\* payload, no empty list and no key 0.
C9_ResultIsFramedPayloads ==
    /\ 0 \notin DOMAIN result
    /\ \A t \in DOMAIN result :
          /\ result[t] # <<>>
          /\ \A k \in 1..Len(result[t]) : result[t][k] # <<>>
    /\ \A t \in (DOMAIN result \cup {TagWord(framed[i].at) \div 64 : i \in 1..Len(framed)}) \ {0} :
          LET expected == PayloadsOfType(framed, t)
          IN  IF expected = <<>>
              THEN t \notin DOMAIN result
              ELSE t \in DOMAIN result /\ result[t] = expected

\* C9 witness: two different payloads kept under one type, and another type
C9_Witness ==
    \E t \in DOMAIN result :
       /\ Len(result[t]) >= 2
       /\ result[t][1] # result[t][2]
       /\ Cardinality(DOMAIN result) >= 2

--------------------------------------------------------------------------
(* Claims about parse_rect (SpecRect)                                      *)

\* The bits of data from byte offset on, most significant first
RECURSIVE BitsFrom(_, _)
BitsFrom(data, offset) ==
    IF offset >= Len(data) THEN <<>>
    ELSE Bits8(Byte(data, offset)) \o BitsFrom(data, offset + 1)

\* The two's complement value of a bit field
SignExtend(bits) ==
    IF bits[1] = 1
    THEN BitsToInt(Tail(bits)) - 2 ^ (Len(bits) - 1)
    ELSE BitsToInt(bits)

\* The i-th (0-based) nbits-wide field after the 5 leading bits
RectField(data, offset, nbits, i) ==
    SignExtend(SubSeq(BitsFrom(data, offset), 5 + i * nbits + 1, 5 + (i + 1) * nbits))

RectNBitsOf(data, offset) == Byte(data, offset) \div 8
RectFits(data, offset) ==
    /\ offset < Len(data)
    /\ offset + ((5 + 4 * RectNBitsOf(data, offset) + 7) \div 8) <= Len(data)

\* C10: for nbits in 1..31 and a box inside the buffer, xmin, xmax, ymin,
\* ymax are the four sign-extended nbits-wide fields at bit offsets 5,
\* 5+nbits, 5+2*nbits, 5+3*nbits; width and height are the differences.
C10_RectFields ==
    (/\ rect_pc = "done"
     /\ RectFits(rect_data, rect_offset)
     /\ RectNBitsOf(rect_data, rect_offset) \in 1..31) =>
       LET n == RectNBitsOf(rect_data, rect_offset)
           r == rect_ret.rect
       IN  /\ DOMAIN r = {"xmin", "xmax", "ymin", "ymax", "width", "height"}
           /\ r.xmin = RectField(rect_data, rect_offset, n, 0)
           /\ r.xmax = RectField(rect_data, rect_offset, n, 1)
           /\ r.ymin = RectField(rect_data, rect_offset, n, 2)
           /\ r.ymax = RectField(rect_data, rect_offset, n, 3)
           /\ r.width = r.xmax - r.xmin
           /\ r.height = r.ymax - r.ymin

\* The least number of bytes that hold n bits
BytesForBits(n) == CHOOSE k \in 0..n : 8 * k >= n /\ 8 * (k - 1) < n

\* C11: when the top 5 bits of data[offset] are zero, whatever the low 3
\* bits, parse_rect returns the all-zero box and offset + 1; otherwise,
\* when the box fits in the buffer, it returns offset + ceil((5+4*nbits)/8).
C11_RectConsumed ==
    (rect_pc = "done" /\ rect_offset < Len(rect_data)) =>
        LET n == RectNBitsOf(rect_data, rect_offset)
        IN  IF n = 0
            THEN /\ rect_ret.end = rect_offset + 1
                 /\ rect_ret.rect = RectDict(0, 0, 0, 0)
            ELSE RectFits(rect_data, rect_offset)
                     => rect_ret.end = rect_offset + BytesForBits(5 + 4 * n)

\* parse_rect returned for a first byte with nbits = 0 and low bits set,
\* at an offset inside a longer buffer
C11_Witness ==
    /\ rect_pc = "done"
    /\ rect_offset >= 1
    /\ rect_offset + 1 < Len(rect_data)
    /\ Byte(rect_data, rect_offset) \in 1..7
    /\ rect_ret.end = rect_offset + 1

--------------------------------------------------------------------------
(* Claims about decompress_swf and the start of extract_swf_data (SpecSwf) *)

\* The container as the claims see it: its signature bytes, and whether
\* the body after the 8-byte fixed header inflates
SwfSignatureIsKnown == Slice(swf_bytes, 0, 3) \in {FWS, CWS}
SwfIsShort == Len(swf_bytes) < 8
SwfInflateFails ==
    /\ ~SwfIsShort
    /\ Slice(swf_bytes, 0, 3) = CWS
    /\ ~zlib_decompress(Slice(swf_bytes, 8, Len(swf_bytes))).ok

\* C12: when the first 3 bytes are neither "CWS" nor "FWS", when the body
\* of a compressed container does not inflate, or when the buffer is
\* shorter than the 8-byte fixed header, decompress_swf has raised:
\* extract_swf_data has no header and frames no tags.
C12_BadContainerFails ==
    (swf_pc # "call" /\ (~SwfSignatureIsKnown \/ SwfInflateFails \/ SwfIsShort))
        => /\ swf_pc = "raised"
           /\ header = NoHeader
           /\ swf_data = <<>>
           /\ swf_stream = <<>>

--------------------------------------------------------------------------
(* Claims about extract_binary_data (SpecAssets)                           *)

\* The payloads of type 87, in tag order
BinaryTags == assets_in[DefineBinaryDataTag]

\* The character id in the first two bytes of a payload, little-endian
CharacterIdOf(payload) == payload[1] + 256 * payload[2]

\* What follows the character id and the 4 reserved bytes
ContentOf(payload) == [j \in 1..(Len(payload) - 6) |-> payload[j + 6]]

\* C13: when extract_binary_data returns, every type-87 payload has its
\* character id c in the export table parsed from the first type-56
\* payload, the result has the key name(c), bound to payload[6:] of the
\* last payload in tag order that resolves to that name, and the result
\* has no other key.
C13_AssetsResolved ==
    assets_pc = "returned" =>
        /\ \A j \in 1..Len(BinaryTags) :
              /\ Len(BinaryTags[j]) >= 2
              /\ HasKey(asset_symbol_names, CharacterIdOf(BinaryTags[j]))
              /\ LET name == GetItem(asset_symbol_names, CharacterIdOf(BinaryTags[j]))
                 IN  /\ HasKey(assets_ret, name)
                     /\ (\A l \in (j + 1)..Len(BinaryTags) :
                            GetItem(asset_symbol_names, CharacterIdOf(BinaryTags[l]))
                                # name)
                           => GetItem(assets_ret, name) = ContentOf(BinaryTags[j])
        /\ \A key \in DictKeys(assets_ret) :
              \E j \in 1..Len(BinaryTags) :
                  GetItem(asset_symbol_names, CharacterIdOf(BinaryTags[j])) = key

\* Two payloads with different contents resolved to one name and the
\* mapping was returned
C13_Witness ==
    /\ assets_pc = "returned"
    /\ Len(BinaryTags) = 2
    /\ CharacterIdOf(BinaryTags[1]) = CharacterIdOf(BinaryTags[2])
    /\ ContentOf(BinaryTags[1]) # ContentOf(BinaryTags[2])
    /\ ContentOf(BinaryTags[2]) # <<>>
    /\ Len(assets_ret.keys) = 1

\* The export table read off the bytes of a type-56 payload: the entries
\* {character id, null-terminated name} that start inside the payload,
\* at most as many as the count in its first two bytes
RECURSIVE NameEnd(_, _)
NameEnd(t, at) ==
    IF at > Len(t) \/ t[at] = 0 THEN at ELSE NameEnd(t, at + 1)

RECURSIVE RawEntries(_, _, _)
RawEntries(t, at, left) ==
    IF left = 0 \/ at + 1 > Len(t) THEN <<>>
    ELSE LET e == NameEnd(t, at + 2)
         IN  <<[id |-> t[at] + 256 * t[at + 1], name |-> SubSeq(t, at + 2, e - 1)]>>
             \o RawEntries(t, e + 1, left - 1)

ExportedEntries(t) ==
    IF Len(t) < 2 THEN <<>> ELSE RawEntries(t, 3, t[1] + 256 * t[2])

\* The character id c has an entry with a name in the export table
HasExportEntry(c) ==
    /\ ExportAssetsTag \in DOMAIN assets_in
    /\ LET es == ExportedEntries(assets_in[ExportAssetsTag][1])
       IN  \E k \in 1..Len(es) : es[k].id = c /\ es[k].name # <<>>

\* C14: extract_binary_data returns a mapping only when the tag mapping
\* has an export table and every binary-data payload's character id has
\* an entry with a non-empty name inside it; otherwise it raises, and what
\* it had resolved before is not returned.
C14_MissingSymbolFails ==
    /\ assets_pc = "returned" =>
          /\ ExportAssetsTag \in DOMAIN assets_in
          /\ \A j \in 1..Len(BinaryTags) :
                Len(BinaryTags[j]) >= 2 /\ HasExportEntry(CharacterIdOf(BinaryTags[j]))
    /\ (assets_pc = "loop" /\ assets_i >= 1) =>
          \A j \in 1..assets_i : HasExportEntry(CharacterIdOf(BinaryTags[j]))
    /\ assets_pc = "raised" => assets_ret = NewDict

\* The second payload's character id is exported with an empty name only:
\* the call raised after the first payload was resolved
C14_Witness ==
    /\ assets_pc = "raised"
    /\ assets_i = 1
    /\ assets_result # NewDict
    /\ Len(BinaryTags[2]) >= 2
    /\ ~HasExportEntry(CharacterIdOf(BinaryTags[2]))
    /\ \E k \in 1..Len(ExportedEntries(assets_in[ExportAssetsTag][1])) :
          ExportedEntries(assets_in[ExportAssetsTag][1])[k].id
              = CharacterIdOf(BinaryTags[2])

--------------------------------------------------------------------------
(* Claims about read_amf3_object                                           *)

\* C15: read_amf3_object returns the value decoded from the raw bytes
\* when that decode succeeds; when it raised, the call goes on to
\* inflate the same bytes and, where they inflate, to decode the inflated
\* bytes with a second reader; only when that fails too does it return
\* the input bytes.
C15_FallbackChain ==
    [][(blob_pc = "raw" /\ status = "raised" /\ zlib_decompress(blob_data).ok)
          => /\ blob_pc' = "inflated"
             /\ amf_input' = [known |-> TRUE,
                              bytes |-> zlib_decompress(blob_data).data]]_vars


\* C20: every reader, the one of the second try included, starts with an
\* empty string table, object table and class table, and two calls of
\* read_amf3_object with the same buffer return equal results whatever
\* was decoded before them or between them.
C20_TablesScopedToDecode ==
    /\ (blob_pc # "idle" /\ amf_data = <<>>) =>
          /\ string_table = <<>>
          /\ object_table = <<>>
          /\ class_table = <<>>
          /\ heap = <<>>
    /\ \A i, j \in 1..Len(decoded) :
          decoded[i].data = decoded[j].data => decoded[i] = decoded[j]

\* A string reference with nothing to refer to is decoded twice, and
\* between the two a second try filled the tables of its reader: the
\* reference is out of range both times
C20_Witness ==
    /\ Len(decoded) = 3
    /\ decoded[1].data = <<6, 0>>
    /\ decoded[2].data = zlib_stored(<<9, 1, 3, 97, 6, 0, 1>>)
    /\ decoded[2].try = "inflated"
    /\ decoded[2].heap # <<>>
    /\ decoded[3].data = <<6, 0>>
    /\ decoded[3].try = "bytes"
    /\ blob_pc = "idle"

--------------------------------------------------------------------------
(* Claims about Flash.get_coredll_configs                                  *)

\* the item at position k of swf_configs has its file
IsWritten(k) == \E w \in 1..Len(cfg_written) : cfg_written[w].item = k

\* C16: a blob whose inflate or AMF3 decode fails does not stop
\* get_coredll_configs: when the call is over, having met no other
\* failure than those, every item that needs no decoding has been written,
\* whether it comes before the malformed blob or after it.
C16_BadBlobNotFatal ==
    (cfg_pc \in {"returned", "raised"} /\ cfg_cause \in {"none", "inflate", "decode"})
        => \A k \in 1..Len(cfg_blobs) :
              ~has_zlib_mark(cfg_blobs[k]) => IsWritten(k)

--------------------------------------------------------------------------
(* Claims about read_u29 and read_integer                                  *)

\* C18: read_u29 applied to the U29 encoding of n, of 1 to 4 bytes,
\* returns n and consumes exactly the bytes of the encoding, whatever
\* follows them; its result never exceeds 2^29-1.
C18_U29RoundTrip ==
    u29_pc = "u29" =>
        LET n == u29_n % 536870912
        IN  /\ Len(encode_u29(n)) \in 1..4
            /\ u29_ret.ok
            /\ u29_ret.value = n
            /\ u29_ret.used = Len(encode_u29(n))
            /\ u29_ret.value <= 536870911

\* 2^29-1 was written in four bytes with a byte after them and read back
C18_Witness ==
    /\ u29_pc = "u29"
    /\ u29_n = 536870911
    /\ u29_bytes = <<255, 255, 255, 255, 255>>
    /\ u29_ret = [ok |-> TRUE, value |-> 536870911, used |-> 4]

\* C17: read_integer returns a number of [-2^28, 2^28-1]: the U29 value v
\* itself up to 0x0FFFFFFF and v - 2^29 above, so that every n of that
\* range is read back from the encoding of n mod 2^29.
C17_IntegerRoundTrip ==
    u29_pc = "integer" =>
        /\ u29_ret.ok
        /\ u29_ret.value >= -268435456
        /\ u29_ret.value <= 268435455
        /\ u29_n <= 268435455 => u29_ret.value = u29_n
        /\ u29_n > 268435455 => u29_ret.value = u29_n - 536870912

\* -2^28 was written as 0x10000000 and read back, and 2^28-1 is next to it
C17_Witness ==
    /\ u29_pc = "integer"
    /\ u29_n = -268435456
    /\ SubSeq(u29_bytes, 1, 4) = <<192, 128, 128, 0>>
    /\ u29_ret.value = -268435456
    /\ read_integer(read_u29(encode_u29(268435455)).value) = 268435455

--------------------------------------------------------------------------
(* Claims about reads at the end of the buffer                             *)

\* the bytes the step took from the stream
StepBytes == SubSeq(amf_data', Len(amf_data) + 1, Len(amf_data'))

\* b ends inside a U29: fewer than 4 bytes, each with the continuation bit
U29CutOff(b) == Len(b) < 4 /\ \A k \in 1..Len(b) : b[k] >= 128

\* the number of bytes of the U29 that b starts with
U29Length(b) ==
    IF b[1] < 128 THEN 1 ELSE IF b[2] < 128 THEN 2 ELSE IF b[3] < 128 THEN 3 ELSE 4

\* b is a U29 and what follows it; the U29 is cut off, or it is inline
\* (odd) and fewer bytes follow than the field has: need bytes when need
\* is given, the declared length u29 >> 1 when need is -1
PrefixedCutOff(b, need) ==
    IF U29CutOff(b) THEN TRUE
    ELSE LET k == U29Length(b)
             u29 == read_u29(SubSeq(b, 1, k)).value
         IN  /\ u29 % 2 = 1
             /\ Len(b) - k < (IF need = -1 THEN u29 \div 2 ELSE need)

\* c is all that was left for read_object, and the field it starts is
\* longer
ValueCutOff(c) ==
    IF c = <<>> THEN TRUE
    ELSE LET b == Tail(c)
         IN   CASE c[1] \in {AMF3_INTEGER, AMF3_ARRAY, AMF3_OBJECT} -> U29CutOff(b)
                [] c[1] = AMF3_DOUBLE -> Len(b) < 8
                [] c[1] \in {AMF3_STRING, AMF3_XML_DOC, AMF3_XML, AMF3_BYTE_ARRAY}
                      -> PrefixedCutOff(b, -1)
                [] c[1] = AMF3_DATE -> PrefixedCutOff(b, 8)
                [] OTHER -> FALSE

\* C19: a read whose field extends past the end of the buffer raises and
\* returns no value: a type marker at the end, a U29 cut off after a
\* byte with the continuation bit, an inline string, XML or byte array
\* with fewer bytes left than its declared length, a double or a date
\* with fewer than 8 bytes left.
C19_TruncatedReadRaises ==
    [][(/\ Len(amf_data') = amf_length
        /\ \/ ExpectsValue /\ ValueCutOff(StepBytes)
           \/ ExpectsString /\ PrefixedCutOff(StepBytes, -1))
          => /\ status' = "raised"
             /\ amf_ret' = amf_ret]_vars

\* An inline string of declared length 2 with one byte left
C19_Witness ==
    /\ amf_length = 3
    /\ amf_data = <<AMF3_STRING, 5, 97>>
    /\ status = "raised"

--------------------------------------------------------------------------
(* Claims about the object table during one decode                         *)

\* C21: object_table is append-only during a decode: a step of the reader
\* never shortens it, lengthens it by at most one entry, and leaves every
\* entry it already held as it was.
C21_ObjectTableAppendOnly ==
    [][/\ Len(object_table') >= Len(object_table)
       /\ Len(object_table') <= Len(object_table) + 1
       /\ \A k \in 1..Len(object_table) : object_table'[k] = object_table[k]]_vars

--------------------------------------------------------------------------
(* Claims about the header size                                            *)

--------------------------------------------------------------------------
(* Claims about run()                                                      *)

\* what run() did for the platform p, in order
RECURSIVE EventsOf(_, _)
EventsOf(p, events) ==
    IF events = <<>> THEN <<>>
    ELSE (IF events[1].name = p THEN <<events[1].ev>> ELSE <<>>)
         \o EventsOf(p, Tail(events))

\* unchecked -> up_to_date | fetching -> decoded -> committed
Lifecycles ==
    {<<>>, <<"up_to_date">>, <<"get_configs_raised">>, <<"get_configs">>,
     <<"get_configs", "save">>, <<"get_configs", "save", "commit">>,
     <<"get_configs", "save", "no_commit">>}

\* C23: a platform whose version file equals the remote version when it
\* is checked does not go on to get_configs, and has nothing fetched,
\* written or committed; get_configs runs for a platform nothing was done
\* for yet; the version file of a platform changes only in
\* save_remote_version after its get_configs returned, so it keeps its
\* content when get_configs raises; the commit comes after the save.
C23_PlatformLifecycle ==
    [][/\ (run_pc = "check" /\ version_file[platform_name] = remote[platform_name])
             => run_pc' # "configs"
       /\ \A p \in PlatformNames :
             /\ fetched'[p] # fetched[p] =>
                   /\ p = platform_name
                   /\ EventsOf(p, run_log) = <<>>
             /\ version_file'[p] # version_file[p] =>
                   /\ p = platform_name
                   /\ EventsOf(p, run_log) = <<"get_configs">>
             /\ EventsOf(p, run_log') \in Lifecycles
             /\ EventsOf(p, run_log') = <<"up_to_date">> =>
                   /\ fetched'[p] = NoVersion
                   /\ version_file'[p] = version_file[p]
             /\ EventsOf(p, run_log') = <<"get_configs_raised">> =>
                   /\ run_pc' = "raised"
                   /\ version_file'[p] = version_file[p]]_vars

\* run() found flash up to date, updated html5 from 1 to 2 and committed
\* it, and found unity without a version file
C23_Witness ==
    /\ run_pc = "done"
    /\ EventsOf("flash", run_log) = <<"up_to_date">>
    /\ EventsOf("html5", run_log) = <<"get_configs", "save", "commit">>
    /\ EventsOf("unity", run_log) = <<"get_configs", "save", "no_commit">>
    /\ version_file["html5"] = 2
    /\ fetched["flash"] = NoVersion


\* the version named in the commit message of the platform p
RECURSIVE CommitVersion(_, _)
CommitVersion(p, events) ==
    IF events = <<>> THEN NoVersion
    ELSE IF events[1].name = p /\ events[1].ev \in {"commit", "no_commit"}
    THEN events[1].version
    ELSE CommitVersion(p, Tail(events))

\* C24: once run() has updated a platform, its version file, its commit
\* message and the content get_configs fetched carry one version, also
\* when a remote publishes a new version while run() executes.
C24_OneVersion ==
    \A p \in PlatformNames :
        EventsOf(p, run_log) = <<"get_configs", "save", "commit">> =>
            /\ version_file[p] = CommitVersion(p, run_log)
            /\ fetched[p] = CommitVersion(p, run_log)

\* C25: the output has_update is written as true only when run()
\* updated and committed at least one platform.
C25_HasUpdateNeedsCommit ==
    has_update = "true" =>
        \E p \in PlatformNames :
            EventsOf(p, run_log) = <<"get_configs", "save", "commit">>

--------------------------------------------------------------------------
(* Claims about download_data_async                                        *)

\* the events of task t, in order, and their kinds
TaskEvents(t) == SelectSeq(dl_log, LAMBDA e : e.task = t)

TaskKinds(t) == [k \in 1..Len(TaskEvents(t)) |-> TaskEvents(t)[k].ev]

CountKind(t, kind) ==
    Cardinality({k \in 1..Len(TaskEvents(t)) : TaskEvents(t)[k].ev = kind})

RECURSIVE PowerOfTwo(_)
PowerOfTwo(k) == IF k = 0 THEN 1 ELSE 2 * PowerOfTwo(k - 1)

\* C26: per task at most max_retries + 1 requests; a transport error is
\* followed by a sleep of 0.5 s doubled each time, and by the raise that
\* ends the whole call once the attempts exceed max_retries; a status
\* error ends its task with no file written and no retry; a file is
\* written only from a response that passed raise_for_status; the tasks
\* are done one by one in list order.
C26_DownloadRetries ==
    /\ \A k \in 1..Len(dl_log) :
          /\ dl_log[k].task \in 1..dl_tasks
          /\ k > 1 => dl_log[k].task \in {dl_log[k - 1].task, dl_log[k - 1].task + 1}
          /\ (k > 1 /\ dl_log[k].task # dl_log[k - 1].task)
                => dl_log[k - 1].ev \in {"write", "status_error"}
          /\ dl_log[k].ev = "raise" =>
                /\ k = Len(dl_log)
                /\ dl_pc = "raised"
                /\ dl_log[k].n = max_retries + 1
          /\ dl_log[k].ev \in {"write", "status_error", "sleep", "raise"} =>
                /\ k > 1
                /\ dl_log[k - 1].ev = "get"
                /\ dl_log[k - 1].task = dl_log[k].task
          /\ dl_log[k].ev = "get" =>
                (k = 1 \/ dl_log[k - 1].ev \in {"write", "status_error", "sleep"})
    /\ \A t \in 1..dl_tasks :
          /\ CountKind(t, "get") <= max_retries + 1
          /\ CountKind(t, "write") + CountKind(t, "status_error")
                + CountKind(t, "raise") <= 1
          /\ CountKind(t, "write") = 1 => t \in 1..dl_i
          /\ \A k \in 1..Len(TaskEvents(t)) :
                LET e == TaskEvents(t)[k]
                IN  /\ e.ev = "get" => e.n = k \div 2
                    /\ e.ev = "sleep" => e.n = PowerOfTwo(k \div 2 - 1)
    /\ (dl_log # <<>> /\ dl_log[Len(dl_log)].ev = "write") => dl_response = "ok"
    /\ (dl_log # <<>> /\ dl_log[Len(dl_log)].ev = "status_error")
          => dl_response = "status_error"
    /\ dl_pc = "done" =>
          \A t \in 1..dl_tasks :
              CountKind(t, "write") + CountKind(t, "status_error") = 1

\* Two transport errors, sleeps of 0.5 s and 1 s, then the file of task 1
\* is written; task 2 meets a status error; the call returns
C26_Witness ==
    /\ dl_pc = "done"
    /\ max_retries = 2
    /\ TaskKinds(1) = <<"get", "sleep", "get", "sleep", "get", "write">>
    /\ TaskEvents(1)[2].n = 1
    /\ TaskEvents(1)[4].n = 2
    /\ TaskKinds(2) = <<"get", "status_error">>

--------------------------------------------------------------------------
(* Termination of the tag-framing loop (SpecTagsFair)                      *)

RECURSIVE SumLens(_)
SumLens(payloads) ==
    IF payloads = <<>> THEN 0
    ELSE Len(Head(payloads)) + SumLens(Tail(payloads))

\* The number of payload bytes held by the result under the types in keys
RECURSIVE PayloadBytes(_)
PayloadBytes(keys) ==
    IF keys = {} THEN 0
    ELSE LET t == CHOOSE k \in keys : TRUE
         IN  SumLens(result[t]) + PayloadBytes(keys \ {t})

\* C27: the tag-framing loop returns for every buffer; each iteration either
\* stops the loop or moves the read position on by at least 2 bytes; the
\* position never exceeds the data length; the payload bytes in the result
\* are at most the data length minus 2 bytes for every framed tag.
C27_TagLoopTerminates ==
    /\ <>(tags_pc = "returned")
    /\ [](/\ tell <= data_length
          /\ PayloadBytes(DOMAIN result) <= data_length - 2 * Len(framed))
    /\ [][tags_pc' = "returned" \/ Len(stream_bytes') >= tell + 2]_tags_vars

\* C27 witness: the loop returned after framing three tags whose payloads
\* and 2-byte headers fill the buffer exactly, one of them dropped as empty
C27_Witness ==
    /\ tags_pc = "returned"
    /\ Len(framed) = 3
    /\ \E i \in 1..3 : framed[i].tag_data = <<>>
    /\ PayloadBytes(DOMAIN result) >= 2
    /\ tell = data_length
    /\ PayloadBytes(DOMAIN result) = data_length - 2 * Len(framed)

--------------------------------------------------------------------------
(* Termination of AMF3Reader.read_object (SpecAmfFair)                     *)

\* The step is a call of read_object or of read_string: every step but the
\* return of a finished read_array or read_generic_object
ReadStep == TopPc # "return"

\* A step of the reader: a read consumes at least one byte or raises; an
\* object reference in range returns the entry of object_table, reads the
\* marker and the U29 only, starts no nested read and registers nothing
ReadsConsume ==
    /\ ReadStep =>
          \/ status' = "raised"
          \/ Len(amf_data') >= Len(amf_data) + 1
    /\ \A k \in (Len(log) + 1)..Len(log') :
          (log'[k].ev = "objref" /\ status' # "raised") =>
             /\ log'[k].val = object_table[log'[k].u29 \div 2 + 1]
             /\ Len(amf_data') <= Len(amf_data) + 5
             /\ Len(stack') <= Len(stack)
             /\ Len(object_table') = Len(object_table)

\* C28: read_object returns or raises on every buffer; every read_object
\* call and every read of a key, a property name or an element in a loop of
\* read_array and read_generic_object consumes at least one byte or raises;
\* an object reference in range returns the entry of object_table as it is,
\* reading the marker and the U29 only, starting no nested read and
\* registering nothing; the stream position never exceeds the buffer length.
C28_ReadObjectTerminates ==
    /\ <>(status # "running")
    /\ [](Len(amf_data) <= amf_length)
    /\ [][ReadsConsume]_amf_vars

\* C28 witness: read_object returned a composite after a reference to a
\* composite that was under construction when the reference was read
C28_Witness ==
    /\ status = "returned"
    /\ amf_ret \in {PyRef(a) : a \in 1..Len(heap)}
    /\ \E k \in 1..Len(log) :
          /\ log[k].ev = "objref"
          /\ log[k].owner >= 0
          /\ log[k].u29 \div 2 = log[k].owner

==========================================================================
